---- MODULE Spec2Model ----
(***************************************************************************)
(* CarTunes web player: the useWebSocket hook (reconnection, keepalive)    *)
(* and the room page's client state (message handler, user commands),      *)
(* in its revisions frontend/app/room/[roomId]/page.tsx, part_003 and      *)
(* part_005.                                                               *)
(***************************************************************************)
EXTENDS Integers, Sequences, FiniteSets, TLC

(* ------------------------------ bounds -------------------------------- *)
MaxSockets == 3
MaxMsgs == 2
MaxVisTimers == 1
MaxBackoffAttempts == 10  \* maxReconnectAttempts option of the backoff model
MaxSongs == 3          \* song (queue item) ids 1..MaxSongs
MaxQueue == 2          \* songs of the room-data specification: 1..MaxQueue
MaxUsers == 2          \* user ids 1..MaxUsers, active_users 0..MaxUsers
MaxTime == 2           \* positions -PreRoll..MaxTime in the events
PreRoll == 3           \* most negative position of the loading pre-roll
MaxRetries == 3        \* audioRetryAttempts stays within 0..MaxRetries
MaxEvents == 4         \* events and commands in a run of the playback model
MaxChecks == 2         \* checkAudioStatus invocations with callbacks pending
MaxFailures == 4       \* retryFailures counts up to MaxFailures
MaxProgress == 5       \* positions 0..MaxProgress in the drift model's events

(* --------------------------- program constants ------------------------ *)
reconnectInterval == 2000
maxReconnectAttempts == 3
MaxRetryDelay == 30000
MAX_RETRY_ATTEMPTS == 2
JitterSet == {0, 996}

Sockets == 1..MaxSockets
HookMsgs == {"ping", "room_state", "song_added"}

VARIABLES
    \* ---- useWebSocket ----
    enabled,               \* prop: !isLoading && room !== null
    mounted,               \* the component using the hook is mounted
    isConnected,           \* useState(false)
    wsRef,                 \* 0 = null, else the socket held by wsRef.current
    sockState,             \* readyState of every WebSocket created so far
    sockManual,            \* history: close() was called on it by disconnect()
    reconnectTimeoutRef,   \* "null" | "pending" | "stale" (fired, not nulled)
    leakedTimers,          \* pending reconnect timeouts no longer referenced
    reconnectAttemptsRef,
    isManuallyClosedRef,
    connectionRetryDelayRef,
    wasPageHiddenRef,
    pageJustBecameVisibleRef,
    docHidden,             \* document.hidden
    visTimers,             \* pending 500 ms timeouts of handleVisibilityChange
    connectionFailed,      \* onConnectionFailed has been invoked
    createdSinceReset,     \* history: WebSockets constructed since the last
                           \* reset of reconnectAttemptsRef to 0
    freshSinceVisible,     \* history: a fresh reconnection (reset, connect())
                           \* ran since the page last became visible
    lastClose,             \* history: what the last onclose did
    pingRecv, pongSent,    \* history: per socket
    arrived, delivered     \* history: non-ping messages received / forwarded

hookVars == <<enabled, mounted, isConnected, wsRef, sockState, sockManual,
              reconnectTimeoutRef, leakedTimers, reconnectAttemptsRef,
              isManuallyClosedRef, connectionRetryDelayRef, wasPageHiddenRef,
              pageJustBecameVisibleRef, docHidden, visTimers, connectionFailed,
              createdSinceReset, freshSinceVisible, lastClose, pingRecv, pongSent, arrived, delivered>>

VARIABLES
    \* ---- room page ----
    impl,                  \* revision of the page: "page" | "part3" | "part5"
    room,                  \* useState<Room | null>
    isLoading,
    currentTime,           \* displayed position
    showErrorModal, errorMessage,
    modalAction,           \* what the modal's button does: "home" | "close"
    autoplayEnabled,
    hasUserInteracted,     \* hasUserInteractedWithPlayButton (state and ref)
    audio,                 \* the <audio> element: paused, currentTime, src (0 =
                           \* ""), stage of the load, one-shot canplay listener
    audioError, audioLoading, songDownloading,
    listeners,             \* callbacks of the latest loadAudio still attached
    heads,                 \* video ids whose HEAD request is in flight
    audioStatusChecking,   \* audioStatusCheckingRef, per video: "no" | "checking"
    statusRuns,            \* closures of the checkAudioStatus calls that still
                           \* have a fetch, a timeout or an interval pending
    statusCheckIntervalsRef, \* per video: the run whose interval the map holds
    isNewUserLoadingAudio,
    audioRetryAttempts,
    audioRetry,            \* the retryAudioPlayback in progress, if any
    showRefreshModal,
    audioAssigned,         \* history: last value written to audio.currentTime
    playCalled,            \* history: the last event or command called play()
    playPressed,           \* history: togglePlayback has run up to its load
    retryFailures,         \* history: failed retryAudioPlayback attempts in a
                           \* row (no successful one in between)
    serverStatus,          \* environment: the backend's status of each video
    handled,               \* history: events and commands handled, up to MaxEvents
    lastEvent              \* history: the event or command handled last

pageVars == <<impl, room, isLoading, currentTime, showErrorModal, errorMessage,
              modalAction,
              autoplayEnabled, hasUserInteracted, audio, audioError,
              audioLoading, songDownloading, listeners, heads,
              audioStatusChecking, statusRuns, statusCheckIntervalsRef,
              isNewUserLoadingAudio, audioRetryAttempts,
              audioRetry, showRefreshModal, audioAssigned, playCalled,
              playPressed, retryFailures, serverStatus, handled, lastEvent>>

vars == <<hookVars, pageVars>>

(* ============== room page: client state and audio loader ============== *)

Impls == {"page", "part3", "part5"}
Songs == 1..MaxSongs           \* queue-item ids; a song's video_id is its id
Users == 1..MaxUsers

NoRoom == [null |-> TRUE]
NoLoad == [video |-> 0, initialTime |-> 0, isPlaying |-> FALSE,
           userHasInteracted |-> FALSE, timeout |-> FALSE]
NoEvent == [type |-> "none"]
NoRetry == [stage |-> "idle", attempts |-> 0, video |-> 0]
NoRun == [video |-> 0, stage |-> "unused", retryCount |-> 0,
          timeoutHandle |-> FALSE, isDownloading |-> FALSE, interval |-> FALSE]
Runs == 1..MaxChecks

Max(a, b) == IF a >= b THEN a ELSE b
Abs(a) == IF a >= 0 THEN a ELSE 0 - a
Range(s) == {s[i] : i \in 1..Len(s)}

\* sequences without repetition over S, of length at most 3
UniqueSeqs(S) ==
    {<<>>} \cup {<<a>> : a \in S}
           \cup {q \in {<<a, b>> : a \in S, b \in S} : q[1] # q[2]}
           \cup {q \in {<<a, b, c>> : a \in S, b \in S, c \in S} :
                    q[1] # q[2] /\ q[1] # q[3] /\ q[2] # q[3]}

\* Array.prototype.filter((e) => e !== x)
without(q, x) == SelectSeq(q, LAMBDA e : e # x)

\* The state the page's handlers read and write, as one record.
Client ==
    [room |-> room, isLoading |-> isLoading, currentTime |-> currentTime,
     showErrorModal |-> showErrorModal, errorMessage |-> errorMessage,
     modalAction |-> modalAction,
     autoplayEnabled |-> autoplayEnabled,
     hasUserInteracted |-> hasUserInteracted,
     audio |-> audio, audioError |-> audioError,
     audioLoading |-> audioLoading, songDownloading |-> songDownloading,
     listeners |-> listeners, heads |-> heads,
     audioStatusChecking |-> audioStatusChecking,
     statusRuns |-> statusRuns,
     statusCheckIntervalsRef |-> statusCheckIntervalsRef,
     isNewUserLoadingAudio |-> isNewUserLoadingAudio,
     audioRetryAttempts |-> audioRetryAttempts, audioRetry |-> audioRetry,
     showRefreshModal |-> showRefreshModal,
     audioAssigned |-> audioAssigned,
     playCalled |-> FALSE]

SetClient(c) ==
    /\ room' = c.room
    /\ isLoading' = c.isLoading
    /\ currentTime' = c.currentTime
    /\ showErrorModal' = c.showErrorModal
    /\ errorMessage' = c.errorMessage
    /\ modalAction' = c.modalAction
    /\ autoplayEnabled' = c.autoplayEnabled
    /\ hasUserInteracted' = c.hasUserInteracted
    /\ audio' = c.audio
    /\ audioError' = c.audioError
    /\ audioLoading' = c.audioLoading
    /\ songDownloading' = c.songDownloading
    /\ listeners' = c.listeners
    /\ heads' = c.heads
    /\ audioStatusChecking' = c.audioStatusChecking
    /\ statusRuns' = c.statusRuns
    /\ statusCheckIntervalsRef' = c.statusCheckIntervalsRef
    /\ isNewUserLoadingAudio' = c.isNewUserLoadingAudio
    /\ audioRetryAttempts' = c.audioRetryAttempts
    /\ audioRetry' = c.audioRetry
    /\ showRefreshModal' = c.showRefreshModal
    /\ audioAssigned' = c.audioAssigned
    /\ playCalled' = c.playCalled

\* State of a freshly mounted page: the room is being fetched, the <audio>
\* element is not rendered yet.
PageInit(impls) ==
    /\ impl \in impls
    /\ room = NoRoom
    /\ isLoading = TRUE
    /\ currentTime = 0
    /\ showErrorModal = FALSE
    /\ errorMessage = "none"
    /\ modalAction = "home"
    /\ autoplayEnabled = FALSE
    /\ hasUserInteracted = FALSE
    /\ audio = [paused |-> TRUE, currentTime |-> 0, src |-> 0, stage |-> "empty",
                canplayOnce |-> FALSE]
    /\ audioError = "null"
    /\ audioLoading = FALSE
    /\ songDownloading = FALSE
    /\ listeners = NoLoad
    /\ heads = {}
    /\ audioStatusChecking = [v \in Songs |-> "no"]
    /\ statusRuns = [i \in Runs |-> NoRun]
    /\ statusCheckIntervalsRef = [v \in Songs |-> 0]
    /\ isNewUserLoadingAudio = FALSE
    /\ audioRetryAttempts = 0
    /\ audioRetry = NoRetry
    /\ showRefreshModal = FALSE
    /\ audioAssigned = 0
    /\ playCalled = FALSE
    /\ retryFailures = 0
    /\ playPressed = FALSE
    /\ serverStatus = [v \in Songs |-> "unknown"]
    /\ handled = 0
    /\ lastEvent = NoEvent

\* audioRef.current is set: the <audio> element is rendered once loading ended
audioMounted(c) == ~c.isLoading

\* loadAudioForCurrentSong: the previous load's listeners and timeout are
\* removed; loadAudio attaches new ones and starts a HEAD request, which no
\* cleanup cancels.
loadAudioForCurrentSong(c, videoId, initialTime, isPlaying, userHasInteracted) ==
    IF audioMounted(c)
    THEN [c EXCEPT !.listeners = [video |-> videoId, initialTime |-> initialTime,
                                  isPlaying |-> isPlaying,
                                  userHasInteracted |-> userHasInteracted,
                                  timeout |-> TRUE],
                   !.heads = @ \cup {videoId}]
    ELSE [c EXCEPT !.listeners = NoLoad]

\* The effect that drives the local progress display, run after a render in
\* which its dependencies changed: [room] in page.tsx, the current song's id
\* and is_playing in part_003 and part_005.
progressEffect(old, c, roomSet) ==
    IF c.room = NoRoom THEN c
    ELSE IF impl = "page"
    THEN IF roomSet
         THEN [c EXCEPT !.currentTime = c.room.playback_state.current_time]
         ELSE c
    ELSE IF \/ old.room = NoRoom
            \/ old.room.current_song # c.room.current_song
            \/ old.room.playback_state.is_playing # c.room.playback_state.is_playing
         THEN [c EXCEPT !.currentTime = Max(0, c.room.playback_state.current_time)]
         ELSE c

\* The effect of part_005 on [room?.playback_state.is_playing, audioError]:
\* the retry attempts are reset while the audio is playing without error.
retryResetEffect(old, c) ==
    IF /\ impl = "part5"
       /\ c.room # NoRoom
       /\ \/ old.room = NoRoom
          \/ old.room.playback_state.is_playing # c.room.playback_state.is_playing
          \/ old.audioError # c.audioError
       /\ c.room.playback_state.is_playing
       /\ c.audioError = "null"
       /\ audioMounted(c) /\ ~c.audio.paused
    THEN [c EXCEPT !.audioRetryAttempts = 0]
    ELSE c

\* A handler ran from state Client to c (roomSet: it called setRoom with a new
\* object); the render that follows runs the effects.
Commit(c, roomSet, ev) ==
    /\ SetClient(retryResetEffect(Client, progressEffect(Client, c, roomSet)))
    /\ handled' = IF handled < MaxEvents THEN handled + 1 ELSE handled
    /\ lastEvent' = ev
    /\ retryFailures' =
           IF ev.type # "retryFetched" THEN retryFailures
           ELSE IF ~ev.failed THEN 0
           ELSE IF retryFailures < MaxFailures THEN retryFailures + 1
           ELSE retryFailures
    /\ playPressed' = (playPressed \/ (ev.type = "togglePlayback" /\ ev.pressed))
    /\ UNCHANGED serverStatus

(* ===================== useWebSocket (use-websocket.ts) ================= *)

NoClose == [fired |-> FALSE, sock |-> 0, manual |-> FALSE, live |-> FALSE,
            attempts |-> 0, scheduled |-> FALSE, delay |-> 0]

\* The refs that connect() and disconnect() read and write, as one record.
Refs ==
    [ws |-> wsRef, st |-> sockState, man |-> sockManual,
     tref |-> reconnectTimeoutRef, leaked |-> leakedTimers,
     att |-> reconnectAttemptsRef, closed |-> isManuallyClosedRef,
     delay |-> connectionRetryDelayRef, failed |-> connectionFailed,
     made |-> createdSinceReset, fresh |-> freshSinceVisible]

FreeSockets(r) == {s \in Sockets : r.st[s] = "unused"}
NewSocket(r) == CHOOSE s \in FreeSockets(r) : \A t \in FreeSockets(r) : s <= t

\* connect(), as closed over a render whose enabled prop is en, of a hook
\* whose maxReconnectAttempts option is maxAttempts
connectMax(r, en, maxAttempts) ==
    IF ~en \/ (r.ws # 0 /\ r.st[r.ws] = "open") THEN r
    ELSE IF r.att >= maxAttempts THEN [r EXCEPT !.failed = TRUE]
    ELSE [r EXCEPT !.ws = NewSocket(r), !.st[NewSocket(r)] = "connecting",
                   !.made = @ + 1]

\* connect() of the room page's hook
connect(r, en) == connectMax(r, en, maxReconnectAttempts)

\* connect() would construct a WebSocket
Creates(r, en) ==
    /\ en
    /\ ~(r.ws # 0 /\ r.st[r.ws] = "open")
    /\ r.att < maxReconnectAttempts

\* the model has a socket left for every WebSocket the step constructs
CanRun(r, en) == Creates(r, en) => FreeSockets(r) # {}

clearReconnectTimeout(r) ==
    IF r.tref # "null" THEN [r EXCEPT !.tref = "null"] ELSE r

closeSocket(st, s) ==
    IF st[s] \in {"connecting", "open"} THEN [st EXCEPT ![s] = "closing"] ELSE st

disconnect(r) ==
    LET r1 == clearReconnectTimeout([r EXCEPT !.closed = TRUE])
    IN IF r1.ws # 0
       THEN [r1 EXCEPT !.st = closeSocket(r1.st, r1.ws), !.man[r1.ws] = TRUE, !.ws = 0]
       ELSE r1

\* Effect "Handle disconnection that happens after page becomes visible":
\* runs after a render in which isConnected or enabled changed.
forcedReconnect(r, conn, en, justVisible) ==
    IF ~conn /\ justVisible /\ en
    THEN connect(clearReconnectTimeout(
             [r EXCEPT !.closed = FALSE, !.att = 0, !.delay = reconnectInterval,
                       !.made = 0, !.fresh = TRUE]), en)
    ELSE r

forcedReconnectRuns(conn, en, justVisible) == ~conn /\ justVisible /\ en

SetRefs(r) ==
    /\ wsRef' = r.ws
    /\ sockState' = r.st
    /\ sockManual' = r.man
    /\ reconnectTimeoutRef' = r.tref
    /\ leakedTimers' = r.leaked
    /\ reconnectAttemptsRef' = r.att
    /\ isManuallyClosedRef' = r.closed
    /\ connectionRetryDelayRef' = r.delay
    /\ connectionFailed' = r.failed
    /\ createdSinceReset' = r.made
    /\ freshSinceVisible' = r.fresh

msgVars == <<pingRecv, pongSent, arrived, delivered>>
visVars == <<wasPageHiddenRef, docHidden, visTimers>>

HookInit ==
    /\ enabled = FALSE
    /\ mounted = TRUE
    /\ isConnected = FALSE
    /\ wsRef = 0
    /\ sockState = [s \in Sockets |-> "unused"]
    /\ sockManual = [s \in Sockets |-> FALSE]
    /\ reconnectTimeoutRef = "null"
    /\ leakedTimers = 0
    /\ reconnectAttemptsRef = 0
    /\ isManuallyClosedRef = FALSE
    /\ connectionRetryDelayRef = reconnectInterval
    /\ wasPageHiddenRef = FALSE
    /\ pageJustBecameVisibleRef = FALSE
    /\ docHidden = FALSE
    /\ visTimers = <<>>
    /\ connectionFailed = FALSE
    /\ createdSinceReset = 0
    /\ freshSinceVisible = FALSE
    /\ lastClose = NoClose
    /\ pingRecv = [s \in Sockets |-> 0]
    /\ pongSent = [s \in Sockets |-> 0]
    /\ arrived = <<>>
    /\ delivered = <<>>

\* The room snapshot has been read: enabled turns true.  The effects whose
\* dependencies changed are cleaned up (the mount effect's cleanup calls
\* disconnect()), then run in order: forced reconnection, connect on mount.
enabledTurnsTrue ==
    /\ mounted /\ ~enabled
    /\ LET r1 == disconnect(Refs)
           r2 == forcedReconnect(r1, isConnected, TRUE, pageJustBecameVisibleRef)
           r3 == connect(r2, TRUE)
       IN /\ CanRun(r1, forcedReconnectRuns(isConnected, TRUE, pageJustBecameVisibleRef))
          /\ CanRun(r2, TRUE)
          /\ SetRefs(r3)
          /\ pageJustBecameVisibleRef' =
                IF forcedReconnectRuns(isConnected, TRUE, pageJustBecameVisibleRef)
                THEN FALSE ELSE pageJustBecameVisibleRef
    /\ enabled' = TRUE
    /\ UNCHANGED <<mounted, isConnected, lastClose, msgVars, visVars>>

RoomLoaded ==
    /\ enabledTurnsTrue
    /\ UNCHANGED pageVars

\* The component unmounts: the mount effect's cleanup calls disconnect(),
\* the visibilitychange listener is removed.
unmountCleanup ==
    /\ mounted
    /\ mounted' = FALSE
    /\ SetRefs(disconnect(Refs))
    /\ UNCHANGED <<enabled, isConnected, pageJustBecameVisibleRef, lastClose,
                   msgVars, visVars>>

Unmount ==
    /\ unmountCleanup
    /\ UNCHANGED pageVars

\* ws.onopen
OnOpen(s) ==
    /\ sockState[s] = "connecting"
    /\ sockState' = [sockState EXCEPT ![s] = "open"]
    /\ isConnected' = TRUE
    /\ reconnectAttemptsRef' = 0
    /\ connectionRetryDelayRef' = reconnectInterval
    /\ createdSinceReset' = 0
    /\ UNCHANGED freshSinceVisible
    /\ UNCHANGED <<enabled, mounted, wsRef, sockManual, reconnectTimeoutRef,
                   leakedTimers, isManuallyClosedRef, pageJustBecameVisibleRef,
                   connectionFailed, lastClose, msgVars, visVars>>
    /\ UNCHANGED pageVars

\* a backoff that only adds the jitter
jitterOnly(d, jitter) ==
    IF d + jitter < MaxRetryDelay THEN d + jitter ELSE MaxRetryDelay

\* Math.min(delay * 1.5 + Math.random() * 1000, 30000), in whole ms
nextDelay(d, jitter) ==
    IF (d * 3) \div 2 + jitter < MaxRetryDelay THEN (d * 3) \div 2 + jitter
    ELSE MaxRetryDelay

\* ws.onclose of socket s; every handler was installed by a connect() whose
\* enabled was true (connect() returns early otherwise).
oncloseMax(r, s, justVisible, jitter, maxAttempts) ==
    LET r1 == IF justVisible THEN [r EXCEPT !.closed = FALSE] ELSE r
    IN IF ~r1.closed
       THEN IF r1.att + 1 < maxAttempts
            THEN [r1 EXCEPT !.att = r1.att + 1,
                            !.leaked = IF r1.tref = "pending" THEN @ + 1 ELSE @,
                            !.tref = "pending",
                            !.delay = nextDelay(r1.delay, jitter)]
            ELSE [r1 EXCEPT !.att = r1.att + 1, !.failed = TRUE]
       ELSE r1

onclose(r, s, justVisible, jitter) ==
    oncloseMax(r, s, justVisible, jitter, maxReconnectAttempts)

\* The connection of socket s ends (by the peer, the network, or the close()
\* of disconnect() completing) and its onclose handler runs; if isConnected
\* changed the component re-renders and the forced-reconnection effect runs.
wsOnclose(s) ==
    /\ sockState[s] \in {"connecting", "open", "closing"}
    /\ \E jitter \in JitterSet :
        LET r0 == [Refs EXCEPT !.st[s] = "closed"]
            r1 == onclose(r0, s, pageJustBecameVisibleRef, jitter)
            rerender == isConnected
            forced == rerender /\ mounted
                        /\ forcedReconnectRuns(FALSE, enabled, pageJustBecameVisibleRef)
            r2 == IF forced
                  THEN forcedReconnect(r1, FALSE, enabled, pageJustBecameVisibleRef)
                  ELSE r1
            sched == ~r1.closed /\ r1.att < maxReconnectAttempts
        IN /\ CanRun(r1, forced)
           /\ SetRefs(r2)
           /\ pageJustBecameVisibleRef' =
                 IF forced THEN FALSE ELSE pageJustBecameVisibleRef
           /\ lastClose' = [fired |-> TRUE, sock |-> s, manual |-> sockManual[s],
                            live |-> mounted /\ enabled,
                            attempts |-> IF r1.closed THEN r0.att + 1 ELSE r1.att,
                            scheduled |-> sched,
                            delay |-> IF sched THEN r0.delay ELSE 0]
    /\ isConnected' = FALSE
    /\ UNCHANGED <<enabled, mounted, msgVars, visVars>>

OnClose(s) ==
    /\ wsOnclose(s)
    /\ UNCHANGED pageVars

\* The reconnect timeout held by reconnectTimeoutRef fires: connect()
reconnectTimeout ==
    /\ reconnectTimeoutRef = "pending"
    /\ CanRun(Refs, TRUE)
    /\ SetRefs(connect([Refs EXCEPT !.tref = "stale"], TRUE))
    /\ UNCHANGED <<enabled, mounted, isConnected, pageJustBecameVisibleRef,
                   lastClose, msgVars, visVars>>

ReconnectTimer ==
    /\ reconnectTimeout
    /\ UNCHANGED pageVars

\* A reconnect timeout that was overwritten in the ref fires: connect()
leakedTimeout ==
    /\ leakedTimers > 0
    /\ CanRun(Refs, TRUE)
    /\ SetRefs(connect([Refs EXCEPT !.leaked = @ - 1], TRUE))
    /\ UNCHANGED <<enabled, mounted, isConnected, pageJustBecameVisibleRef,
                   lastClose, msgVars, visVars>>

LeakedTimer ==
    /\ leakedTimeout
    /\ UNCHANGED pageVars

\* visibilitychange with document.hidden
PageHidden ==
    /\ mounted /\ ~docHidden
    /\ docHidden' = TRUE
    /\ wasPageHiddenRef' = TRUE
    /\ pageJustBecameVisibleRef' = FALSE
    /\ UNCHANGED <<enabled, mounted, isConnected, wsRef, sockState, sockManual,
                   reconnectTimeoutRef, leakedTimers, reconnectAttemptsRef,
                   isManuallyClosedRef, connectionRetryDelayRef, visTimers,
                   connectionFailed, createdSinceReset, freshSinceVisible,
                   lastClose, msgVars>>
    /\ UNCHANGED pageVars

\* visibilitychange with the document visible: the 500 ms timeout closes over
\* the isConnected and enabled of the render that registered the listener.
PageVisible ==
    /\ mounted /\ docHidden
    /\ Len(visTimers) < MaxVisTimers
    /\ docHidden' = FALSE
    /\ pageJustBecameVisibleRef' = TRUE
    /\ visTimers' = Append(visTimers, [isConnected |-> isConnected, enabled |-> enabled])
    /\ UNCHANGED <<enabled, mounted, isConnected, wsRef, sockState, sockManual,
                   reconnectTimeoutRef, leakedTimers, reconnectAttemptsRef,
                   isManuallyClosedRef, connectionRetryDelayRef, wasPageHiddenRef,
                   connectionFailed, createdSinceReset, lastClose, msgVars>>
    /\ freshSinceVisible' = FALSE
    /\ UNCHANGED pageVars

\* The 500 ms timeout of handleVisibilityChange fires
VisibilityTimer ==
    /\ visTimers # <<>>
    /\ LET c == Head(visTimers)
           fresh == wasPageHiddenRef /\ ~c.isConnected /\ c.enabled
           r1 == clearReconnectTimeout(
                    [Refs EXCEPT !.att = 0, !.delay = reconnectInterval,
                                 !.closed = FALSE, !.made = 0, !.fresh = TRUE])
       IN /\ CanRun(r1, fresh)
          /\ SetRefs(IF fresh THEN connect(r1, c.enabled) ELSE Refs)
    /\ visTimers' = Tail(visTimers)
    /\ wasPageHiddenRef' = FALSE
    /\ pageJustBecameVisibleRef' = FALSE
    /\ UNCHANGED <<enabled, mounted, isConnected, docHidden, lastClose, msgVars>>
    /\ UNCHANGED pageVars

RECURSIVE SumUpTo(_, _)
SumUpTo(f, n) == IF n = 0 THEN 0 ELSE f[n] + SumUpTo(f, n - 1)
TotalPings == SumUpTo(pingRecv, MaxSockets)

\* sendMessage(data): the socket the data is sent on, 0 when it is dropped
sendMessage == IF wsRef # 0 /\ sockState[wsRef] = "open" THEN wsRef ELSE 0

\* ws.onmessage of socket s with a parsed message of type m
OnMessage(s, m) ==
    /\ sockState[s] = "open"
    /\ Len(arrived) + TotalPings < MaxMsgs
    /\ IF m = "ping"
       THEN /\ pingRecv' = [pingRecv EXCEPT ![s] = @ + 1]
            /\ pongSent' = IF sendMessage # 0
                           THEN [pongSent EXCEPT ![sendMessage] = @ + 1]
                           ELSE pongSent
            /\ UNCHANGED <<arrived, delivered>>
       ELSE /\ arrived' = Append(arrived, m)
            /\ delivered' = Append(delivered, m)
            /\ UNCHANGED <<pingRecv, pongSent>>
    /\ UNCHANGED <<enabled, mounted, isConnected, wsRef, sockState, sockManual,
                   reconnectTimeoutRef, leakedTimers, reconnectAttemptsRef,
                   isManuallyClosedRef, connectionRetryDelayRef,
                   pageJustBecameVisibleRef, connectionFailed, createdSinceReset,
                   freshSinceVisible, lastClose, visVars>>
    /\ UNCHANGED pageVars

HookNext ==
    \/ RoomLoaded
    \/ Unmount
    \/ \E s \in Sockets : OnOpen(s)
    \/ \E s \in Sockets : OnClose(s)
    \/ ReconnectTimer
    \/ LeakedTimer
    \/ PageHidden
    \/ PageVisible
    \/ VisibilityTimer

\* Connection life cycle of the hook
InitHook ==
    /\ HookInit
    /\ PageInit({"part5"})

SpecHook == InitHook /\ [][HookNext]_vars

KeepaliveNext ==
    \/ HookNext
    \/ \E s \in Sockets, m \in HookMsgs : OnMessage(s, m)

\* The hook with the messages received on its sockets
InitKeepalive ==
    /\ HookInit
    /\ PageInit({"part5"})

SpecKeepalive == InitKeepalive /\ [][KeepaliveNext]_vars

\* Sockets that have closed are not referenced any more; their ids are
\* used again.
collect(st) == [s \in Sockets |-> IF st[s] = "closed" THEN "unused" ELSE st[s]]

\* ws.onclose while the page stays visible, in a hook whose
\* maxReconnectAttempts option is MaxBackoffAttempts
BackoffClose(s) ==
    /\ sockState[s] \in {"connecting", "open"}
    /\ ~pageJustBecameVisibleRef
    /\ \E jitter \in JitterSet :
        LET r0 == [Refs EXCEPT !.st[s] = "closed"]
            r1 == oncloseMax(r0, s, pageJustBecameVisibleRef, jitter,
                             MaxBackoffAttempts)
            sched == ~r1.closed /\ r1.att < MaxBackoffAttempts
        IN /\ SetRefs(r1)
           /\ lastClose' = [fired |-> TRUE, sock |-> s, manual |-> sockManual[s],
                            live |-> mounted /\ enabled,
                            attempts |-> IF r1.closed THEN r0.att + 1 ELSE r1.att,
                            scheduled |-> sched,
                            delay |-> IF sched THEN r0.delay ELSE 0]
    /\ isConnected' = FALSE
    /\ UNCHANGED <<enabled, mounted, pageJustBecameVisibleRef, msgVars, visVars>>
    /\ UNCHANGED pageVars

\* the reconnect timeout fires: connect(), same option
BackoffTimer ==
    /\ reconnectTimeoutRef = "pending"
    /\ SetRefs(connectMax([Refs EXCEPT !.tref = "stale", !.st = collect(@)],
                          TRUE, MaxBackoffAttempts))
    /\ UNCHANGED <<enabled, mounted, isConnected, pageJustBecameVisibleRef,
                   lastClose, msgVars, visVars>>
    /\ UNCHANGED pageVars

BackoffNext ==
    \/ \E s \in Sockets : OnOpen(s)
    \/ \E s \in Sockets : BackoffClose(s)
    \/ BackoffTimer

\* Consecutive reconnects of a hook that allows MaxBackoffAttempts of them
\* and is enabled from its first render: the mount effect has called
\* connect(), disconnect() has never run.
InitBackoff ==
    /\ enabled = TRUE
    /\ mounted = TRUE
    /\ isConnected = FALSE
    /\ wsRef = 1
    /\ sockState = [s \in Sockets |-> IF s = 1 THEN "connecting" ELSE "unused"]
    /\ sockManual = [s \in Sockets |-> FALSE]
    /\ reconnectTimeoutRef = "null"
    /\ leakedTimers = 0
    /\ reconnectAttemptsRef = 0
    /\ isManuallyClosedRef = FALSE
    /\ connectionRetryDelayRef = reconnectInterval
    /\ wasPageHiddenRef = FALSE
    /\ pageJustBecameVisibleRef = FALSE
    /\ docHidden = FALSE
    /\ visTimers = <<>>
    /\ connectionFailed = FALSE
    /\ createdSinceReset = 1
    /\ freshSinceVisible = FALSE
    /\ lastClose = NoClose
    /\ pingRecv = [s \in Sockets |-> 0]
    /\ pongSent = [s \in Sockets |-> 0]
    /\ arrived = <<>>
    /\ delivered = <<>>
    /\ PageInit({"part5"})

SpecBackoff == InitBackoff /\ [][BackoffNext]_vars

(* ================ room page: room data and queue handlers ============== *)

Snapshot(m, q, s, p, t, a, ap) ==
    [members |-> m, queue |-> q, current_song |-> s,
     playback_state |-> [is_playing |-> p, current_time |-> t],
     active_users |-> a, autoplay |-> ap]

\* x || 0 of JavaScript on a number
orZero(x) == IF x = 0 THEN 0 ELSE x

\* a || b of JavaScript on numbers
orElse(a, b) == IF a = 0 THEN b ELSE a

\* case "ROOM_STATE"
roomStateRoom(prev, roomData) ==
    [members |-> roomData.members,
     queue |-> roomData.queue,
     current_song |-> roomData.current_song,
     playback_state |->
        IF /\ prev # NoRoom
           /\ prev.current_song = roomData.current_song
           /\ prev.playback_state.is_playing
        THEN [roomData.playback_state EXCEPT
                 !.current_time = prev.playback_state.current_time]
        ELSE roomData.playback_state,
     active_users |->
        IF impl = "page" THEN orZero(roomData.active_users)
        ELSE IF prev = NoRoom THEN 0 ELSE orZero(prev.active_users),
     autoplay |-> IF impl = "part5" THEN roomData.autoplay ELSE FALSE]

handleRoomState(c, roomData) ==
    LET c1 == [c EXCEPT !.room = roomStateRoom(c.room, roomData),
                        !.autoplayEnabled =
                            IF impl = "part5" THEN roomData.autoplay ELSE @]
        songChanged == c.room = NoRoom \/ c.room.current_song # roomData.current_song
    IN IF /\ roomData.current_song # 0
          /\ audioMounted(c)
          /\ (impl = "page" \/ songChanged)
       THEN loadAudioForCurrentSong(c1, roomData.current_song,
                orZero(roomData.playback_state.current_time),
                roomData.playback_state.is_playing, c.hasUserInteracted)
       ELSE c1

\* a SONG_ADDED handler that put the song at the head of the queue instead
handleSongPrepended(c, song) ==
    IF c.room = NoRoom THEN c
    ELSE [c EXCEPT !.room.queue = <<song>> \o @]

\* case "SONG_ADDED"
handleSongAdded(c, song) ==
    IF c.room = NoRoom THEN c
    ELSE [c EXCEPT !.room.queue = Append(@, song)]

\* case "SONG_REMOVED"
handleSongRemoved(c, song_id) ==
    IF c.room = NoRoom THEN c
    ELSE [c EXCEPT !.room.queue = without(@, song_id)]

\* case "QUEUE_REORDERED"
handleQueueReordered(c, queue) ==
    IF c.room = NoRoom THEN c
    ELSE [c EXCEPT !.room.queue = queue]

\* case "USER_JOINED"
handleUserJoined(c, user_id) ==
    IF impl = "page"
    THEN [c EXCEPT !.room.members = Append(without(@, user_id), user_id),
                   !.room.active_users = @ + 1]
    ELSE c

\* case "USER_LEFT"
handleUserLeft(c, user_id) ==
    IF impl = "page"
    THEN [c EXCEPT !.room.members = without(@, user_id),
                   !.room.active_users = Max(0, @ - 1)]
    ELSE c

\* case "ROOM_STATS_UPDATE"
handleRoomStatsUpdate(c, active_users, autoplay) ==
    IF impl = "part5"
    THEN [c EXCEPT !.room.active_users = active_users,
                   !.room.autoplay = autoplay,
                   !.autoplayEnabled = autoplay]
    ELSE [c EXCEPT !.room.active_users = active_users]

\* The socket is enabled, and delivers events, once the room is loaded.
Receiving == ~isLoading /\ room # NoRoom

(* ================== room page: loading and queue commands ============== *)

\* closures of checkAudioStatus that have nothing pending any more
FreeRuns(c) == {i \in Runs : c.statusRuns[i].stage = "unused"}

\* checkAudioStatus(videoId) can run: it returns at once, or a closure is free
CanCheck(c, videoId) ==
    c.audioStatusChecking[videoId] # "no" \/ FreeRuns(c) # {}

\* checkAudioStatus up to its first fetch: unless videoId is being checked
\* already, it joins the set, the timeout is set (part_005; part_003 has
\* none) and the initial checkStatus() is sent.  The callers' await of that answer is folded: what
\* they do after it (checkRoomExists: the load) starts in the same step.
checkAudioStatus(c, videoId) ==
    IF c.audioStatusChecking[videoId] # "no" THEN c
    ELSE LET i == CHOOSE j \in FreeRuns(c) : \A k \in FreeRuns(c) : j <= k
         IN [c EXCEPT !.audioStatusChecking[videoId] = "checking",
                      !.statusRuns[i] =
                          [video |-> videoId, stage |-> "fetch", retryCount |-> 0,
                           timeoutHandle |-> (impl = "part5"),
                           isDownloading |-> FALSE,
                           interval |-> FALSE]]

\* checkRoomExists, on a 200 answer carrying roomData
roomLoaded(c, roomData) ==
    LET set(cc) == [cc EXCEPT !.room = roomData,
                        !.currentTime = orZero(roomData.playback_state.current_time),
                        !.isLoading = FALSE,
                        !.autoplayEnabled =
                            IF impl = "part5" THEN roomData.autoplay ELSE @]
        c1 == set(c)
    IN IF roomData.current_song = 0 THEN c1
       ELSE IF impl = "part5"
       THEN LET c2 == [c1 EXCEPT !.isNewUserLoadingAudio =
                           IF roomData.playback_state.is_playing /\ ~c.hasUserInteracted
                           THEN TRUE ELSE @]
                c3 == checkAudioStatus(c2, roomData.current_song)
            IN loadAudioForCurrentSong(c3, roomData.current_song,
                   Max(0, roomData.playback_state.current_time),
                   roomData.playback_state.is_playing, c.hasUserInteracted)
       \* page.tsx, part_003: called before the render that mounts <audio>
       ELSE set(loadAudioForCurrentSong(c, roomData.current_song,
                    roomData.playback_state.current_time,
                    roomData.playback_state.is_playing, c.hasUserInteracted))

roomMissing(c) ==
    [c EXCEPT !.errorMessage = "room not found", !.showErrorModal = TRUE]

\* The mount effect's checkRoomExists() completes.
checkRoomExists(roomData, ok) ==
    /\ isLoading /\ room = NoRoom /\ ~showErrorModal
    /\ ok /\ roomData.current_song # 0 => CanCheck(Client, roomData.current_song)
    /\ IF ok
       THEN Commit(roomLoaded(Client, roomData), TRUE,
                   [type |-> "checkRoomExists", ok |-> TRUE])
       ELSE Commit(roomMissing(Client), FALSE,
                   [type |-> "checkRoomExists", ok |-> FALSE])
    /\ UNCHANGED impl

CheckRoomExists(roomData, ok) ==
    /\ checkRoomExists(roomData, ok)
    /\ UNCHANGED hookVars

\* a bringSongToTop that moved the song to the end of the queue instead
bringToBottom(queue, songId) == without(queue, songId) \o <<songId>>

\* [songToMove, ...currentQueue.filter((s) => s.id !== songId)]
bringToTop(queue, songId) == <<songId>> \o without(queue, songId)

ReorderAnswers == {"Queue reordered", "Queue unchanged, blocked by throttle", "failed"}

bringSongToTop(c, songId, answer) ==
    IF c.room = NoRoom THEN c
    ELSE IF songId \notin Range(c.room.queue) THEN c
    ELSE IF impl = "part5"
    THEN IF answer = "Queue reordered"
         THEN [c EXCEPT !.room.queue = bringToTop(c.room.queue, songId)]
         ELSE IF answer = "Queue unchanged, blocked by throttle"
         THEN [c EXCEPT !.errorMessage = "slow down", !.modalAction = "close",
                        !.showErrorModal = TRUE]
         ELSE c
    \* part_003: any answer that arrives replaces the local queue
    ELSE IF answer # "failed"
         THEN [c EXCEPT !.room.queue = bringToTop(c.room.queue, songId)]
         ELSE c

\* the PUT request bringSongToTop sends, if any
reorderRequest(c, songId, answer) ==
    IF c.room # NoRoom /\ songId \in Range(c.room.queue)
    THEN [type |-> "bringSongToTop", songId |-> songId, sent |-> TRUE,
          song_ids |-> bringToTop(c.room.queue, songId), answer |-> answer]
    ELSE [type |-> "bringSongToTop", songId |-> songId, sent |-> FALSE,
          song_ids |-> <<>>, answer |-> "none"]

BringSongToTop(songId, answer) ==
    /\ impl \in {"part3", "part5"}
    /\ ~showErrorModal
    /\ Commit(bringSongToTop(Client, songId, answer),
              reorderRequest(Client, songId, answer).sent
                 /\ bringSongToTop(Client, songId, answer).room # room,
              reorderRequest(Client, songId, answer))
    /\ UNCHANGED <<hookVars, impl>>

\* The user closes the modal of a queue notice ("知道了").
CloseModal ==
    /\ showErrorModal /\ errorMessage = "slow down"
    /\ Commit([Client EXCEPT !.showErrorModal = FALSE], FALSE, [type |-> "closeModal"])
    /\ UNCHANGED <<hookVars, impl>>

(* ------------------- events of the room data and queue ----------------- *)

RoomState(roomData) ==
    /\ Receiving
    /\ Commit(handleRoomState(Client, roomData), TRUE,
              [type |-> "ROOM_STATE", room |-> roomData])
    /\ UNCHANGED <<hookVars, impl>>

SongAdded(song) ==
    /\ Receiving
    /\ song \notin Range(room.queue)
    /\ Len(room.queue) < MaxSongs
    /\ Commit(handleSongAdded(Client, song), TRUE,
              [type |-> "SONG_ADDED", song |-> song])
    /\ UNCHANGED <<hookVars, impl>>

SongRemoved(song_id) ==
    /\ Receiving
    /\ Commit(handleSongRemoved(Client, song_id), TRUE,
              [type |-> "SONG_REMOVED", song_id |-> song_id])
    /\ UNCHANGED <<hookVars, impl>>

QueueReordered(queue) ==
    /\ Receiving
    /\ Range(queue) = Range(room.queue)
    /\ Commit(handleQueueReordered(Client, queue), TRUE,
              [type |-> "QUEUE_REORDERED", queue |-> queue])
    /\ UNCHANGED <<hookVars, impl>>

UserJoined(user_id) ==
    /\ Receiving
    /\ room.active_users < MaxUsers
    /\ Commit(handleUserJoined(Client, user_id), impl = "page",
              [type |-> "USER_JOINED", user_id |-> user_id])
    /\ UNCHANGED <<hookVars, impl>>

UserLeft(user_id) ==
    /\ Receiving
    /\ Commit(handleUserLeft(Client, user_id), impl = "page",
              [type |-> "USER_LEFT", user_id |-> user_id])
    /\ UNCHANGED <<hookVars, impl>>

RoomStatsUpdate(active_users, autoplay) ==
    /\ Receiving
    /\ Commit(handleRoomStatsUpdate(Client, active_users, autoplay), TRUE,
              [type |-> "ROOM_STATS_UPDATE", active_users |-> active_users])
    /\ UNCHANGED <<hookVars, impl>>

\* snapshots and events of the room-data specification
SyncSnapshots ==
    {Snapshot(m, q, s, p, IF p THEN 1 ELSE 0, Len(m), ap) :
        m \in {<<1>>, <<1, 2>>}, q \in {<<1>>, <<2, 1>>}, s \in {0, 1},
        p \in BOOLEAN, ap \in BOOLEAN}

SnapshotsOf(S) == {r \in S : impl = "part5" \/ ~r.autoplay}

SyncSongs == 1..MaxQueue

SyncNext ==
    \/ \E r \in SnapshotsOf(SyncSnapshots), ok \in BOOLEAN :
          CheckRoomExists(r, ok)
    \/ \E r \in SnapshotsOf(SyncSnapshots) : RoomState(r)
    \/ \E s \in SyncSongs : SongAdded(s)
    \/ \E s \in SyncSongs : SongRemoved(s)
    \/ \E q \in UniqueSeqs(SyncSongs) : QueueReordered(q)
    \/ \E u \in Users : UserJoined(u)
    \/ \E u \in Users : UserLeft(u)
    \/ \E a \in 0..MaxUsers, ap \in BOOLEAN :
          (impl = "part5" \/ ~ap) /\ RoomStatsUpdate(a, ap)
    \/ \E s \in SyncSongs, a \in ReorderAnswers : BringSongToTop(s, a)
    \/ CloseModal

\* The room page's membership, queue and snapshot handling
InitSync ==
    /\ HookInit
    /\ PageInit(Impls)

SpecSync == InitSync /\ [][SyncNext]_vars

\* snapshots of the queue specification: every queue of up to MaxSongs songs
QueueSnapshots ==
    {Snapshot(<<1>>, q, s, p, 0, 1, FALSE) :
        q \in UniqueSeqs(Songs), s \in {0, 1}, p \in BOOLEAN}

QueueNext ==
    \/ \E r \in QueueSnapshots, ok \in BOOLEAN : CheckRoomExists(r, ok)
    \/ \E s \in Songs : SongAdded(s)
    \/ \E s \in Songs : SongRemoved(s)
    \/ \E q \in UniqueSeqs(Songs) : QueueReordered(q)

\* The queue events on queues of up to MaxSongs songs
InitQueue ==
    /\ HookInit
    /\ PageInit({"page", "part5"})

SpecQueue == InitQueue /\ [][QueueNext]_vars


(* ================= room page: audio element and loader ================= *)

\* audioElement.currentTime = v.  Before the metadata is known the value is
\* kept as the default playback start position; afterwards the seek clamps.
setAudioTime(c, v) ==
    [c EXCEPT !.audio.currentTime =
                  IF c.audio.stage \in {"empty", "loading"} THEN v ELSE Max(0, v),
              !.audioAssigned = v]

\* audioElement.play(); ok: the promise resolves (else it rejects, e.g.
\* blocked by the autoplay policy or no playable source)
play(c, ok) ==
    IF ok THEN [c EXCEPT !.audio.paused = FALSE, !.playCalled = TRUE]
    ELSE [c EXCEPT !.playCalled = TRUE]

pause(c) == [c EXCEPT !.audio.paused = TRUE]

\* the cleanup function returned by loadAudio
loaderCleanup(c) == [c EXCEPT !.listeners = NoLoad]

HeadStatuses == {200, 202, 404, 0}      \* 0: the fetch rejected

\* loadAudio's HEAD request for videoId settles: then / catch, then finally
\* (src = url; load()), followed by the element's loadstart event.
headSettled(c, videoId, status) ==
    LET mine == c.listeners # NoLoad /\ c.listeners.video = videoId
        c1 == IF status = 202 THEN [c EXCEPT !.songDownloading = TRUE]
              ELSE IF status = 200 THEN [c EXCEPT !.songDownloading = FALSE]
              ELSE [c EXCEPT !.audioError =
                                 IF status = 404 THEN "not found" ELSE "network",
                             !.audioLoading = FALSE,
                             !.songDownloading = FALSE,
                             !.listeners.timeout = IF mine THEN FALSE ELSE @]
        c2 == [c1 EXCEPT !.audio.src = videoId, !.audio.stage = "loading",
                         !.audio.paused = TRUE, !.audio.currentTime = 0,
                         !.heads = @ \ {videoId}]
    IN \* handleLoadStart
       IF c2.listeners # NoLoad
       THEN [c2 EXCEPT !.audioLoading = TRUE, !.audioError = "null"]
       ELSE c2

\* onLoadedMetadata
handleLoadedMetadata(c, initialTime) ==
    IF impl = "part5" /\ initialTime < 0 THEN c
    ELSE setAudioTime(c, initialTime)

\* the element's loadedmetadata event
loadedMetadata(c) ==
    LET c1 == [c EXCEPT !.audio.stage = "meta",
                        !.audio.currentTime = Max(0, @)]
    IN IF c1.listeners # NoLoad
       THEN handleLoadedMetadata(c1, c1.listeners.initialTime)
       ELSE c1

\* an onCanPlay that starts the audio of a playing room without looking at
\* the interaction flag of its load
handleCanPlayAlways(c, isPlaying, userHasInteracted, ok) ==
    LET c1 == IF impl = "part5" THEN [c EXCEPT !.isNewUserLoadingAudio = FALSE]
              ELSE c
    IN IF isPlaying /\ c1.audio.paused THEN play(c1, ok) ELSE c1

\* onCanPlay
handleCanPlay(c, isPlaying, userHasInteracted, ok) ==
    LET c1 == IF impl = "part5" THEN [c EXCEPT !.isNewUserLoadingAudio = FALSE]
              ELSE c
    IN IF userHasInteracted /\ isPlaying /\ c1.audio.paused
       THEN play(c1, ok) ELSE c1

\* the element's canplay event: handleCanPlayEvent of the load, then the
\* one-shot listener that PLAYBACK_STARTED (part_005) may have added
canPlay(c, ok) ==
    LET c1 == [c EXCEPT !.audio.stage = "ready"]
        c2 == IF c1.listeners # NoLoad
              THEN handleCanPlay([c1 EXCEPT !.audioLoading = FALSE,
                                            !.audioError = "null",
                                            !.listeners.timeout = FALSE],
                                 c1.listeners.isPlaying,
                                 c1.listeners.userHasInteracted, ok)
              ELSE c1
    IN IF c2.audio.canplayOnce
       THEN [(IF c2.room.playback_state.is_playing THEN play(c2, ok) ELSE c2)
                EXCEPT !.audio.canplayOnce = FALSE]
       ELSE c2

\* the element's error event -> handleError
audioErrorEvent(c) ==
    LET c1 == [c EXCEPT !.audio.stage = "error"]
    IN IF c1.listeners # NoLoad
       THEN [c1 EXCEPT !.audioError = "load error", !.audioLoading = FALSE,
                       !.listeners.timeout = FALSE]
       ELSE c1

HeadSettled(videoId, status) ==
    /\ videoId \in heads
    /\ Commit(headSettled(Client, videoId, status), FALSE,
              [type |-> "head", video |-> videoId, status |-> status])
    /\ UNCHANGED <<hookVars, impl>>

LoadedMetadata ==
    /\ audio.stage = "loading"
    /\ Commit(loadedMetadata(Client), FALSE, [type |-> "loadedmetadata"])
    /\ UNCHANGED <<hookVars, impl>>

CanPlay(ok) ==
    /\ audio.stage = "meta"
    /\ Commit(canPlay(Client, ok), FALSE, [type |-> "canplay"])
    /\ UNCHANGED <<hookVars, impl>>

AudioErrorEvent ==
    /\ audio.stage \in {"loading", "meta"}
    /\ Commit(audioErrorEvent(Client), FALSE, [type |-> "error"])
    /\ UNCHANGED <<hookVars, impl>>

\* the 30 s loadingTimeout of the latest load fires
LoadingTimeout ==
    /\ listeners.timeout
    /\ Commit([Client EXCEPT !.audioLoading = FALSE, !.audioError = "timeout",
                             !.listeners.timeout = FALSE],
              FALSE, [type |-> "loadingTimeout"])
    /\ UNCHANGED <<hookVars, impl>>

StatusAnswers == {"downloading", "ready", "failed"}

\* clearInterval(statusCheckIntervalsRef.current.get(videoId)) and delete
clearMapInterval(c, videoId) ==
    LET j == c.statusCheckIntervalsRef[videoId]
    IN IF j = 0 THEN c
       ELSE [c EXCEPT !.statusRuns[j].interval = FALSE,
                      !.statusCheckIntervalsRef[videoId] = 0]

\* cleanup() of run i of checkAudioStatus
cleanup(c, i) ==
    LET videoId == c.statusRuns[i].video
    IN [clearMapInterval(c, videoId) EXCEPT
           !.statusRuns[i].timeoutHandle = FALSE,
           !.audioStatusChecking[videoId] = "no"]

\* isNewUserLoadingAudio and room as read inside checkStatus: every caller
\* (the mount effect's checkRoomExists, the handler of the socket) holds the
\* checkAudioStatus of the first render, where they are false and null
statusNewUserLoading == FALSE

\* checkStatus of run i of checkAudioStatus, from the answer of its fetch on;
\* "failed": a status other than downloading and ready, an HTTP error or a
\* rejected fetch (the three branches are the same).  part_003 has neither
\* isDownloading nor retryCount: only "ready" ends its polling.
checkStatus(c, i, answer) ==
    LET run == c.statusRuns[i]
    IN IF answer = "downloading"
       THEN [c EXCEPT !.statusRuns[i].isDownloading = (impl = "part5"),
                      !.statusRuns[i].retryCount = 0,
                      !.statusRuns[i].timeoutHandle = FALSE,
                      !.songDownloading = TRUE, !.audioLoading = FALSE,
                      !.audioError = "null"]
       ELSE IF answer = "ready"
       THEN LET c1 == [cleanup(c, i) EXCEPT !.songDownloading = FALSE]
            IN IF statusNewUserLoading
               THEN loadAudioForCurrentSong(c1, run.video,
                        Max(0, c.room.playback_state.current_time),
                        c.room.playback_state.is_playing, c.hasUserInteracted)
               ELSE c1
       ELSE IF impl # "part5" \/ run.isDownloading THEN c
       ELSE IF run.retryCount + 1 >= MAX_RETRY_ATTEMPTS
       THEN [cleanup([c EXCEPT !.statusRuns[i].retryCount = @ + 1], i) EXCEPT
                !.audioError = "cannot load", !.songDownloading = FALSE]
       ELSE [c EXCEPT !.statusRuns[i].retryCount = @ + 1]

\* a closure with no fetch, timeout or interval pending is dropped
reap(c) ==
    [c EXCEPT !.statusRuns =
        [i \in Runs |-> IF /\ @[i].stage = "polling"
                          /\ ~@[i].interval /\ ~@[i].timeoutHandle
                       THEN NoRun ELSE @[i]]]

\* the initial check of run i is answered; unless it is ready (or has given
\* up) the interval is created and stored in the map under the video id
statusFetched(c, i, answer) ==
    LET c1 == [checkStatus(c, i, answer) EXCEPT !.statusRuns[i].stage = "polling"]
        run == c1.statusRuns[i]
    IN reap(IF answer # "ready"
               /\ (impl # "part5" \/ run.isDownloading
                      \/ run.retryCount < MAX_RETRY_ATTEMPTS)
            THEN [c1 EXCEPT !.statusRuns[i].interval = TRUE,
                            !.statusCheckIntervalsRef[run.video] = i]
            ELSE c1)

\* the interval of run i fires and its checkStatus() is answered
statusTick(c, i, answer) ==
    LET c1 == checkStatus(c, i, answer)
        run == c1.statusRuns[i]
    IN reap(IF answer = "ready"
               \/ (impl = "part5" /\ ~run.isDownloading
                      /\ run.retryCount >= MAX_RETRY_ATTEMPTS)
            THEN [c1 EXCEPT !.statusRuns[i].interval = FALSE,
                            !.statusCheckIntervalsRef[run.video] = 0]
            ELSE c1)

\* the NEW_USER_LOADING_TIMEOUT of run i fires
statusTimeout(c, i) ==
    LET c1 == [c EXCEPT !.statusRuns[i].timeoutHandle = FALSE]
    IN reap(IF c.statusRuns[i].isDownloading THEN c1
            ELSE [cleanup(c1, i) EXCEPT !.audioError = "cannot load",
                                        !.songDownloading = FALSE])

StatusFetched(i, answer) ==
    /\ statusRuns[i].stage = "fetch"
    /\ Commit(statusFetched(Client, i, answer), FALSE,
              [type |-> "status", video |-> statusRuns[i].video])
    /\ UNCHANGED <<hookVars, impl>>

StatusTick(i, answer) ==
    /\ statusRuns[i].interval
    /\ Commit(statusTick(Client, i, answer), FALSE,
              [type |-> "status", video |-> statusRuns[i].video])
    /\ UNCHANGED <<hookVars, impl>>

StatusTimeout(i) ==
    /\ statusRuns[i].timeoutHandle
    /\ Commit(statusTimeout(Client, i), FALSE,
              [type |-> "status", video |-> statusRuns[i].video])
    /\ UNCHANGED <<hookVars, impl>>

(* ==================== room page: playback events ======================= *)

\* songDownloading as read inside handleWebSocketMessage (part_005): the
\* callback's dependencies never change, so it keeps the first render's value
handlerSongDownloading == FALSE

\* case "SONG_CHANGED"; song 0: no current song
handleSongChanged(c, song) ==
    LET c1 == [c EXCEPT !.room.current_song = song,
                        !.room.playback_state.current_time = 0,
                        !.room.playback_state.is_playing =
                            IF impl = "page" /\ song = 0 THEN FALSE ELSE @]
    IN IF song # 0 /\ audioMounted(c)
       THEN IF impl = "page"
            THEN loadAudioForCurrentSong(c1, song, 0, TRUE, c.hasUserInteracted)
            ELSE checkAudioStatus(
                     loadAudioForCurrentSong(c1, song, 0, FALSE, c.hasUserInteracted),
                     song)
       ELSE IF audioMounted(c)
       THEN loaderCleanup(
                [pause(c1) EXCEPT !.audio.src = 0, !.audio.stage = "empty",
                                  !.currentTime = 0, !.audioError = "null",
                                  !.audioLoading = FALSE,
                                  !.songDownloading = FALSE])
       ELSE c1

\* case "PLAYBACK_STATE_CHANGED" (part_005; page.tsx has no such case)
handlePlaybackStateChanged(c, newIsPlaying, newCurrentTime, ok) ==
    LET c1 == [c EXCEPT !.room.playback_state.is_playing = newIsPlaying,
                        !.room.playback_state.current_time = newCurrentTime]
    IN IF impl = "page" THEN c
       ELSE IF ~(audioMounted(c) /\ c.room.current_song # 0) THEN c1
       ELSE IF newIsPlaying
       THEN IF c.hasUserInteracted
            THEN play(IF /\ newCurrentTime >= 0
                         /\ Abs(c.audio.currentTime - newCurrentTime) > 2
                      THEN setAudioTime(c1, newCurrentTime) ELSE c1, ok)
            ELSE c1
       ELSE IF Abs(c.audio.currentTime - newCurrentTime) > 2
            THEN setAudioTime(pause(c1), newCurrentTime)
            ELSE pause(c1)

\* case "PLAYBACK_STARTED"
handlePlaybackStarted(c, current_time, ok) ==
    LET c1 == [c EXCEPT !.room.playback_state.is_playing = TRUE,
                        !.room.playback_state.current_time =
                            orElse(current_time, @)]
    IN IF ~(audioMounted(c) /\ c.hasUserInteracted) THEN c1
       ELSE IF impl = "page"
       THEN play(setAudioTime(c1, current_time), ok)
       ELSE LET c2 == IF current_time >= 0 THEN setAudioTime(c1, current_time)
                      ELSE c1
            IN IF c2.audio.stage = "ready" THEN play(c2, ok)
               ELSE [c2 EXCEPT !.audio.canplayOnce = TRUE]

\* case "PLAYBACK_PAUSED"; page.tsx takes is_playing from the event
handlePlaybackPaused(c, is_playing, current_time) ==
    LET c1 == [c EXCEPT !.room.playback_state.is_playing =
                            IF impl = "page" THEN is_playing ELSE FALSE,
                        !.room.playback_state.current_time = current_time]
    IN IF ~audioMounted(c) THEN c1
       ELSE IF Abs(c.audio.currentTime - current_time) > 2
       THEN setAudioTime(pause(c1), current_time)
       ELSE pause(c1)

\* case "PLAYBACK_SEEKED"
handlePlaybackSeeked(c, current_time) ==
    LET c1 == [c EXCEPT !.room.playback_state.current_time = current_time]
    IN IF audioMounted(c) THEN setAudioTime(c1, current_time) ELSE c1

\* a PLAYBACK_PROGRESS handler of part_005 that tolerates a drift of 1 s only
handlePlaybackProgressTight(c, progressTime, ok) ==
    IF impl = "page"
    THEN LET c1 == [c EXCEPT !.currentTime = progressTime]
         IN IF audioMounted(c) /\ Abs(c.audio.currentTime - progressTime) > 1
            THEN setAudioTime(c1, progressTime) ELSE c1
    ELSE IF progressTime < 0 THEN [c EXCEPT !.currentTime = 0]
    ELSE LET c1 == [c EXCEPT !.currentTime = progressTime]
             videoId == c.room.current_song
         IN IF audioMounted(c) /\ progressTime = 0 /\ videoId # 0
            THEN LET c2 == IF c1.audioStatusChecking[videoId] # "no"
                           THEN [clearMapInterval(c1, videoId) EXCEPT
                                    !.audioStatusChecking[videoId] = "no",
                                    !.songDownloading = FALSE]
                           ELSE c1
                 IN IF c.audio.paused /\ c.hasUserInteracted /\ ~handlerSongDownloading
                    THEN play(setAudioTime(c2, progressTime), ok)
                    ELSE c2
            ELSE IF audioMounted(c) /\ progressTime > 0
            THEN IF /\ c.audio.paused /\ c.hasUserInteracted
                    /\ c.room.playback_state.is_playing /\ ~handlerSongDownloading
                 THEN play(setAudioTime(c1, progressTime), ok)
                 ELSE IF ~c.audio.paused
                         /\ Abs(c.audio.currentTime - progressTime) > 1
                 THEN setAudioTime(c1, progressTime + 1)
                 ELSE c1
            ELSE c1

\* case "PLAYBACK_PROGRESS"; times are whole seconds, so "< 0.5" is "= 0"
handlePlaybackProgress(c, progressTime, ok) ==
    IF impl = "page"
    THEN LET c1 == [c EXCEPT !.currentTime = progressTime]
         IN IF audioMounted(c) /\ Abs(c.audio.currentTime - progressTime) > 1
            THEN setAudioTime(c1, progressTime) ELSE c1
    ELSE IF progressTime < 0 THEN [c EXCEPT !.currentTime = 0]
    ELSE LET c1 == [c EXCEPT !.currentTime = progressTime]
             videoId == c.room.current_song
         IN IF audioMounted(c) /\ progressTime = 0 /\ videoId # 0
            THEN LET c2 == IF c1.audioStatusChecking[videoId] # "no"
                           THEN [clearMapInterval(c1, videoId) EXCEPT
                                    !.audioStatusChecking[videoId] = "no",
                                    !.songDownloading = FALSE]
                           ELSE c1
                 IN IF c.audio.paused /\ c.hasUserInteracted /\ ~handlerSongDownloading
                    THEN play(setAudioTime(c2, progressTime), ok)
                    ELSE c2
            ELSE IF audioMounted(c) /\ progressTime > 0
            THEN IF /\ c.audio.paused /\ c.hasUserInteracted
                    /\ c.room.playback_state.is_playing /\ ~handlerSongDownloading
                 THEN play(setAudioTime(c1, progressTime), ok)
                 ELSE IF ~c.audio.paused
                         /\ Abs(c.audio.currentTime - progressTime) > 2
                 THEN setAudioTime(c1, progressTime + 1)
                 ELSE c1
            ELSE c1

\* the interval of the progress effect ticks
tick(c) ==
    [c EXCEPT !.currentTime = IF impl = "page" THEN @ + 1 ELSE Max(0, @ + 1)]

SongChanged(song) ==
    /\ Receiving
    /\ song # 0 /\ impl # "page" => CanCheck(Client, song)
    /\ Commit(handleSongChanged(Client, song), TRUE,
              [type |-> "SONG_CHANGED", song |-> song])
    /\ UNCHANGED <<hookVars, impl>>

PlaybackStateChanged(is_playing, current_time, ok) ==
    /\ Receiving
    /\ Commit(handlePlaybackStateChanged(Client, is_playing, current_time, ok),
              impl # "page",
              [type |-> "PLAYBACK_STATE_CHANGED", is_playing |-> is_playing,
               current_time |-> current_time])
    /\ UNCHANGED <<hookVars, impl>>

PlaybackStarted(current_time, ok) ==
    /\ Receiving
    /\ Commit(handlePlaybackStarted(Client, current_time, ok), TRUE,
              [type |-> "PLAYBACK_STARTED", is_playing |-> TRUE,
               current_time |-> current_time])
    /\ UNCHANGED <<hookVars, impl>>

PlaybackPaused(is_playing, current_time) ==
    /\ Receiving
    /\ Commit(handlePlaybackPaused(Client, is_playing, current_time), TRUE,
              [type |-> "PLAYBACK_PAUSED",
               is_playing |-> IF impl = "page" THEN is_playing ELSE FALSE,
               current_time |-> current_time])
    /\ UNCHANGED <<hookVars, impl>>

PlaybackSeeked(current_time) ==
    /\ Receiving
    /\ Commit(handlePlaybackSeeked(Client, current_time), TRUE,
              [type |-> "PLAYBACK_SEEKED"])
    /\ UNCHANGED <<hookVars, impl>>

PlaybackProgress(current_time, ok) ==
    /\ Receiving
    /\ Commit(handlePlaybackProgress(Client, current_time, ok), FALSE,
              [type |-> "PLAYBACK_PROGRESS", time |-> current_time])
    /\ UNCHANGED <<hookVars, impl>>

Tick ==
    /\ room # NoRoom
    /\ room.playback_state.is_playing
    /\ currentTime <= MaxTime
    /\ Commit(tick(Client), FALSE, [type |-> "tick"])
    /\ UNCHANGED <<hookVars, impl>>

(* ================= room page: user commands (part_005) ================= *)

\* what the loader achieves during a 1 s wait: nothing, or the HEAD answer,
\* the metadata and canplay
waited(c, videoId, progress, ok) ==
    IF progress = "canplay" /\ videoId \in c.heads
    THEN canPlay(loadedMetadata(headSettled(c, videoId, 200)), ok)
    ELSE c

\* retryAudioPlayback up to its fetch; captured: audioRetryAttempts of the
\* render that created the callback
retryAudioPlayback(c, captured) ==
    LET c1 == [c EXCEPT !.isNewUserLoadingAudio = FALSE]
    IN IF c.room = NoRoom \/ ~audioMounted(c) THEN c1
       ELSE IF c.room.current_song = 0 THEN c1
       ELSE [loaderCleanup(c1) EXCEPT
                !.audioRetryAttempts = captured + 1,
                !.audioError = "null",
                !.audioRetry = [stage |-> "fetching", attempts |-> captured + 1,
                                video |-> c.room.current_song]]

\* the catch block of retryAudioPlayback
retryFailed(c, attempts, videoId) ==
    IF attempts >= MAX_RETRY_ATTEMPTS
    THEN [c EXCEPT !.showRefreshModal = TRUE, !.audioRetry = NoRetry]
    ELSE [c EXCEPT !.audioRetry = [stage |-> "timer", attempts |-> attempts,
                                   video |-> videoId]]

\* the try block of retryAudioPlayback throws: the fetch failed, or play()
\* was called and rejected
retryThrows(c, fetchOk, is_playing, ok) ==
    ~fetchOk \/ (is_playing /\ c.hasUserInteracted /\ ~ok)

\* retryAudioPlayback from the answer of its fetch on
retryFetched(c, fetchOk, is_playing, current_time, progress, ok) ==
    LET k == c.audioRetry.attempts
        v == c.audioRetry.video
        t == Max(0, current_time)
        c1 == [c EXCEPT !.audioRetry = NoRetry]
        c2 == waited(loadAudioForCurrentSong(c1, v, t, is_playing,
                                             c.hasUserInteracted),
                     v, progress, ok)
    IN IF ~fetchOk THEN retryFailed(c1, k, v)
       ELSE IF is_playing /\ c.hasUserInteracted
       THEN IF ok
            THEN [play(setAudioTime(c2, t), TRUE) EXCEPT !.audioRetryAttempts = 0]
            ELSE retryFailed(setAudioTime(c2, t), k, v)
       ELSE c2

\* togglePlayback up to its request: with no audio source yet it loads the
\* song (to play after loading) and waits 1 s, then clears audioError
togglePrepared(c, progress, ok) ==
    IF c.audio.src = 0
    THEN [waited(loadAudioForCurrentSong(c, c.room.current_song,
                     Max(0, c.room.playback_state.current_time), TRUE, TRUE),
                 c.room.current_song, progress, ok)
             EXCEPT !.audioError = "null"]
    ELSE c

\* 0: togglePlayback returns early; 1: the room is paused, the backend is
\* asked to play; 2: the room plays, only the local audio is started;
\* 3: the backend is asked to pause
toggleScenario(c, progress, ok) ==
    IF c.room = NoRoom \/ ~audioMounted(c) THEN 0
    ELSE IF c.room.current_song = 0 \/ c.songDownloading THEN 0
    ELSE IF c.audioError # "null" /\ togglePrepared(c, progress, ok).audio.src = 0
    THEN 0
    ELSE IF ~c.room.playback_state.is_playing THEN 1
    ELSE IF togglePrepared(c, progress, ok).audio.paused THEN 2
    ELSE 3

\* togglePlayback; status: answer of the playback POST (scenario 1, 3) or of
\* the room GET (scenario 2); current_time: the position in that answer
togglePlayback(c, progress, status, current_time, ok) ==
    IF c.room = NoRoom \/ ~audioMounted(c) THEN c
    ELSE IF c.room.current_song = 0 \/ c.songDownloading THEN c
    ELSE
    LET c1 == togglePrepared(c, progress, ok)
        c2 == [c1 EXCEPT !.hasUserInteracted = TRUE]
        scenario == toggleScenario(c, progress, ok)
        confirmed(cc, playing) ==
            [cc EXCEPT !.room.playback_state.is_playing = playing,
                       !.room.playback_state.current_time = current_time,
                       !.audioError = "null"]
    IN IF scenario = 0 THEN c1
       ELSE IF scenario = 1
       THEN IF status = 429 THEN c2
            ELSE IF status = 200 /\ ok THEN confirmed(play(c2, TRUE), TRUE)
            ELSE [c2 EXCEPT !.audioError = "play failed"]
       ELSE IF scenario = 2
       THEN IF status = 200 /\ ok
            THEN confirmed(play(IF current_time >= 0
                                THEN setAudioTime(c2, current_time) ELSE c2,
                                TRUE), TRUE)
            ELSE retryAudioPlayback(
                     IF status = 200 /\ current_time >= 0
                     THEN setAudioTime(c2, current_time) ELSE c2,
                     c.audioRetryAttempts)
       ELSE IF status = 429 THEN c2
            ELSE IF status = 200 THEN confirmed(pause(c2), FALSE)
            ELSE [c2 EXCEPT !.audioError = "pause failed"]

\* the request togglePlayback sends
toggleRequest(c, progress, ok) ==
    IF toggleScenario(c, progress, ok) = 0 THEN "none"
    ELSE IF toggleScenario(c, progress, ok) = 2 THEN "GET"
    ELSE "POST"

\* togglePlayback of page.tsx: the local element is played or paused first
\* and the answer of the playback POST is not looked at; status and
\* current_time are the answer of the room GET of scenario 2
togglePlaybackPage(c, status, current_time, ok) ==
    IF \/ c.room = NoRoom \/ ~audioMounted(c)
       \/ c.room.current_song = 0 \/ c.audioError # "null" \/ c.songDownloading
    THEN c
    ELSE
    LET c2 == [c EXCEPT !.hasUserInteracted = TRUE]
        setPlaying(cc, playing, t) ==
            [cc EXCEPT !.room.playback_state.is_playing = playing,
                       !.room.playback_state.current_time = t]
        failed(cc) ==
            [cc EXCEPT !.audioError = "play failed",
                       !.room.playback_state.is_playing = FALSE]
    IN IF ~c.room.playback_state.is_playing
       THEN IF ok THEN setPlaying(play(c2, TRUE), TRUE, c.audio.currentTime)
            ELSE failed(play(c2, FALSE))
       ELSE IF c.audio.paused
       THEN IF status # 200 THEN failed(c2)
            ELSE IF ok
            THEN setPlaying(play(setAudioTime(c2, current_time), TRUE),
                            TRUE, current_time)
            ELSE failed(play(setAudioTime(c2, current_time), FALSE))
       ELSE setPlaying(pause(c2), FALSE, c.audio.currentTime)

toggleRequestPage(c, ok) ==
    IF \/ c.room = NoRoom \/ ~audioMounted(c)
       \/ c.room.current_song = 0 \/ c.audioError # "null" \/ c.songDownloading
    THEN "none"
    ELSE IF ~c.room.playback_state.is_playing
    THEN IF ok THEN "POST" ELSE "none"
    ELSE IF c.audio.paused THEN "GET"
    ELSE "POST"

\* handleAutoplayToggle
handleAutoplayToggle(c, status, autoplay) ==
    IF status = 429 THEN c
    ELSE IF status = 200
    THEN [c EXCEPT !.autoplayEnabled = autoplay,
                   !.room = IF @ = NoRoom THEN @ ELSE [@ EXCEPT !.autoplay = autoplay]]
    ELSE [c EXCEPT !.errorMessage = "autoplay toggle failed",
                   !.showErrorModal = TRUE]

Statuses == {200, 429, 500}

EventTimes == {0 - PreRoll, 0, MaxTime}

\* the page is rendered: its buttons and the media-session handlers exist
Rendered == ~isLoading /\ room # NoRoom /\ impl = "part5"

TogglePlayback(progress, status, current_time, ok) ==
    /\ Rendered
    /\ audioRetry.stage = "idle"
    /\ audioRetryAttempts < MaxRetries
    /\ Commit(togglePlayback(Client, progress, status, current_time, ok), TRUE,
              [type |-> "togglePlayback",
               status |-> IF toggleScenario(Client, progress, ok) \in {1, 3}
                          THEN status ELSE 0,
               pressed |-> /\ audioMounted(Client)
                           /\ room.current_song # 0 /\ ~songDownloading,
               request |-> toggleRequest(Client, progress, ok),
               answer |-> status,
               time |-> current_time])
    /\ UNCHANGED <<hookVars, impl>>

TogglePlaybackPage(status, current_time, ok) ==
    /\ ~isLoading /\ room # NoRoom /\ impl = "page"
    /\ Commit(togglePlaybackPage(Client, status, current_time, ok), TRUE,
              [type |-> "togglePlaybackPage",
               request |-> toggleRequestPage(Client, ok),
               answer |-> status,
               time |-> current_time])
    /\ UNCHANGED <<hookVars, impl>>

\* skipToNext: no answer changes any client state
SkipToNext(status) ==
    /\ Rendered
    /\ Commit(Client, FALSE, [type |-> "skipToNext", status |-> status])
    /\ UNCHANGED <<hookVars, impl>>

AutoplayToggle(status, autoplay) ==
    /\ Rendered
    /\ ~showErrorModal
    /\ Commit(handleAutoplayToggle(Client, status, autoplay), TRUE,
              [type |-> "autoplayToggle", status |-> status])
    /\ UNCHANGED <<hookVars, impl>>

RetryFetched(fetchOk, is_playing, current_time, progress, ok) ==
    /\ audioRetry.stage = "fetching"
    /\ Commit(retryFetched(Client, fetchOk, is_playing, current_time, progress, ok),
              FALSE, [type |-> "retryFetched",
                      attempts |-> audioRetry.attempts,
                      failed |-> retryThrows(Client, fetchOk, is_playing, ok)])
    /\ UNCHANGED <<hookVars, impl>>

\* the 2 s timer set by a failed retry calls the same retryAudioPlayback again
RetryTimer ==
    /\ audioRetry.stage = "timer"
    /\ Commit(retryAudioPlayback([Client EXCEPT !.audioRetry = NoRetry],
                                 audioRetry.attempts - 1),
              FALSE, [type |-> "retryTimer"])
    /\ UNCHANGED <<hookVars, impl>>

PlaySnapshots ==
    {Snapshot(<<1>>, <<2>>, s, p, t, 1, FALSE) :
        s \in {0, 1}, p \in BOOLEAN, t \in EventTimes}

\* the run has events left
Budget == handled < MaxEvents

PlaybackNext ==
    \/ \E r \in PlaySnapshots, ok \in BOOLEAN : Budget /\ CheckRoomExists(r, ok)
    \/ \E r \in PlaySnapshots : Budget /\ RoomState(r)
    \/ \E s \in 0..MaxSongs : Budget /\ SongChanged(s)
    \/ \E p \in BOOLEAN, t \in EventTimes, ok \in BOOLEAN :
          Budget /\ PlaybackStateChanged(p, t, ok)
    \/ \E t \in EventTimes, ok \in BOOLEAN : Budget /\ PlaybackStarted(t, ok)
    \/ \E p \in BOOLEAN, t \in EventTimes : Budget /\ PlaybackPaused(p, t)
    \/ \E t \in EventTimes : Budget /\ PlaybackSeeked(t)
    \/ \E t \in EventTimes, ok \in BOOLEAN : Budget /\ PlaybackProgress(t, ok)
    \/ Budget /\ Tick
    \/ \E v \in Songs, st \in HeadStatuses : Budget /\ HeadSettled(v, st)
    \/ Budget /\ LoadedMetadata
    \/ \E ok \in BOOLEAN : Budget /\ CanPlay(ok)
    \/ Budget /\ AudioErrorEvent
    \/ Budget /\ LoadingTimeout
    \/ \E i \in Runs, a \in StatusAnswers : Budget /\ StatusFetched(i, a)
    \/ \E i \in Runs, a \in StatusAnswers : Budget /\ StatusTick(i, a)
    \/ \E i \in Runs : Budget /\ StatusTimeout(i)
    \/ \E pr \in {"none", "canplay"}, st \in Statuses, t \in EventTimes,
          ok \in BOOLEAN : Budget /\ TogglePlayback(pr, st, t, ok)
    \/ \E st \in {200, 500}, t \in EventTimes, ok \in BOOLEAN :
          Budget /\ TogglePlaybackPage(st, t, ok)
    \/ \E st \in Statuses : Budget /\ SkipToNext(st)
    \/ \E st \in Statuses, ap \in BOOLEAN : Budget /\ AutoplayToggle(st, ap)
    \/ \E f \in BOOLEAN, p \in BOOLEAN, t \in EventTimes,
          pr \in {"none", "canplay"}, ok \in BOOLEAN : Budget /\ RetryFetched(f, p, t, pr, ok)
    \/ Budget /\ RetryTimer

\* The room page's playback: events, audio loading and user commands
InitPlayback ==
    /\ HookInit
    /\ PageInit({"page", "part5"})

SpecPlayback == InitPlayback /\ [][PlaybackNext]_vars

(* ================== room page: audio retry (part_005) ================== *)

\* the room is playing when the page loads: a late joiner
RetrySnapshots ==
    {Snapshot(<<1>>, <<>>, 1, TRUE, t, 1, FALSE) : t \in {0, MaxTime}}

RetryNext ==
    \/ \E r \in RetrySnapshots : CheckRoomExists(r, TRUE)
    \/ \E pr \in {"none", "canplay"}, st \in {200, 500}, ok \in BOOLEAN :
          TogglePlayback(pr, st, 0, ok)
    \/ \E f \in BOOLEAN, p \in BOOLEAN, pr \in {"none", "canplay"},
          ok \in BOOLEAN : RetryFetched(f, p, 0, pr, ok)
    \/ RetryTimer
    \/ \E p \in BOOLEAN, ok \in BOOLEAN : PlaybackStateChanged(p, 0, ok)

\* The room page's retryAudioPlayback, started by a failed local play
InitRetry ==
    /\ HookInit
    /\ PageInit({"part5"})

SpecRetry == InitRetry /\ [][RetryNext]_vars

(* ================= room page: status polling (part_005) ================ *)

ServerStatuses == {"unknown", "downloading", "ready", "error"}

\* what the status endpoint answers for a video in status st
statusAnswer(st) ==
    IF st = "downloading" THEN "downloading"
    ELSE IF st = "ready" THEN "ready"
    ELSE "failed"

\* the backend's download of video v moves on:
\* unknown -> downloading -> ready | error
ServerAdvance(v, st) ==
    /\ \/ serverStatus[v] = "unknown" /\ st = "downloading"
       \/ serverStatus[v] = "downloading" /\ st \in {"ready", "error"}
    /\ serverStatus' = [serverStatus EXCEPT ![v] = st]
    /\ SetClient([Client EXCEPT !.playCalled = playCalled])
    /\ UNCHANGED <<hookVars, impl, handled, lastEvent, retryFailures, playPressed>>

\* the initial check of run i is answered with the backend's status
AnsweredFetch(i) ==
    /\ statusRuns[i].stage = "fetch"
    /\ StatusFetched(i, statusAnswer(serverStatus[statusRuns[i].video]))

\* the interval of run i fires and is answered with the backend's status
AnsweredTick(i) ==
    /\ statusRuns[i].interval
    /\ StatusTick(i, statusAnswer(serverStatus[statusRuns[i].video]))

\* the videos of the polling model
PolledSongs == {1}

PollSnapshots ==
    {Snapshot(<<1>>, <<>>, s, p, 0, 1, FALSE) :
        s \in {0} \cup PolledSongs, p \in BOOLEAN}

PollNext ==
    \/ \E r \in PollSnapshots, ok \in BOOLEAN : CheckRoomExists(r, ok)
    \/ \E s \in {0} \cup PolledSongs : SongChanged(s)
    \/ \E t \in {0, MaxTime}, ok \in BOOLEAN : PlaybackProgress(t, ok)
    \/ \E v \in PolledSongs, st \in ServerStatuses : ServerAdvance(v, st)
    \/ \E i \in Runs : AnsweredFetch(i)
    \/ \E i \in Runs : AnsweredTick(i)
    \/ \E i \in Runs : StatusTimeout(i)

\* The room page's status polling against the backend's download status
InitPoll ==
    /\ HookInit
    /\ PageInit({"part3", "part5"})

\* the initial fetch is answered, a live interval fires every 2 s and a
\* pending timeout fires after 5 s
PollFairness ==
    \A i \in Runs : /\ WF_vars(AnsweredFetch(i))
                    /\ WF_vars(AnsweredTick(i))
                    /\ WF_vars(StatusTimeout(i))

SpecPoll == InitPoll /\ [][PollNext]_vars /\ PollFairness

(* ============ room page: who starts the local audio (part_005) ========= *)

InteractSnapshots ==
    {Snapshot(<<1>>, <<>>, 1, p, 0, 1, FALSE) : p \in BOOLEAN}

\* One song, runs of any length: the WebSocket events that may start the
\* audio, the steps of a load, the play button and the status timeout that
\* sets audioError
InteractNext ==
    \/ \E r \in InteractSnapshots : CheckRoomExists(r, TRUE)
    \/ \E s \in {0, 1} : SongChanged(s)
    \/ \E p \in BOOLEAN, ok \in BOOLEAN : PlaybackStateChanged(p, 0, ok)
    \/ \E ok \in BOOLEAN : PlaybackStarted(0, ok)
    \/ \E ok \in BOOLEAN : PlaybackProgress(MaxTime, ok)
    \/ \E r \in InteractSnapshots : RoomState(r)
    \/ HeadSettled(1, 200)
    \/ LoadedMetadata
    \/ \E ok \in BOOLEAN : CanPlay(ok)
    \/ \E i \in Runs : StatusTimeout(i)
    \/ \E pr \in {"none"}, st \in {200, 429}, ok \in BOOLEAN :
          TogglePlayback(pr, st, 0, ok)

InitInteract ==
    /\ HookInit
    /\ PageInit({"part5"})

SpecInteract == InitInteract /\ [][InteractNext]_vars

(* ================ room page: drift of the local audio ================== *)

DriftSnapshots ==
    {Snapshot(<<1>>, <<>>, 1, TRUE, t, 1, FALSE) : t \in {0, MaxTime}}

\* A late joiner loads the song and starts the local audio; PLAYBACK_PROGRESS
\* events then arrive with positions up to MaxProgress
DriftNext ==
    \/ \E r \in DriftSnapshots : CheckRoomExists(r, TRUE)
    \/ HeadSettled(1, 200)
    \/ LoadedMetadata
    \/ \E ok \in BOOLEAN : CanPlay(ok)
    \/ \E t \in {0, MaxTime} : TogglePlayback("none", 200, t, TRUE)
    \/ \E t \in 0..MaxProgress : PlaybackProgress(t, TRUE)

InitDrift ==
    /\ HookInit
    /\ PageInit({"part5"})

SpecDrift == InitDrift /\ [][DriftNext]_vars

(* ================== room page with its useWebSocket =================== *)

\* the page's main tree, which holds <audio> and the error <Modal>, is
\* rendered: not the "checking room" screen of isLoading, not null
mainRendered == ~isLoading /\ room # NoRoom

\* checkRoomExists() completes on the mounted page; when it stored the room,
\* the next render passes enabled = true to useWebSocket.
MountRoom(roomData, ok) ==
    /\ mounted
    /\ checkRoomExists(roomData, ok)
    /\ IF ok THEN enabledTurnsTrue ELSE UNCHANGED hookVars

RoomSnapshots ==
    {Snapshot(<<1>>, <<2>>, s, FALSE, 0, 1, FALSE) : s \in {0, 1}}

RoomNext ==
    \/ \E r \in RoomSnapshots, ok \in BOOLEAN : MountRoom(r, ok)
    \/ Unmount
    \/ \E s \in Sockets : OnOpen(s)
    \/ \E s \in Sockets : OnClose(s)
    \/ ReconnectTimer
    \/ LeakedTimer
    \/ PageHidden
    \/ PageVisible
    \/ VisibilityTimer

\* The room page from its mount, with the connection of its useWebSocket
InitRoom ==
    /\ HookInit
    /\ PageInit({"page", "part5"})

SpecRoom == InitRoom /\ [][RoomNext]_vars

(* =================== room page: the room is closed ===================== *)

\* case "ROOM_CLOSING"
handleRoomClosing(c) ==
    [c EXCEPT !.errorMessage = "room closed", !.showErrorModal = TRUE]

\* the onConnectionFailed option the page passes to useWebSocket
onConnectionFailed(c) ==
    [c EXCEPT !.errorMessage = "connection failed", !.showErrorModal = TRUE]

\* the onclose handler of socket s calls onConnectionFailed
closeCallsFailed(s) ==
    LET r0 == [Refs EXCEPT !.st[s] = "closed", !.failed = FALSE]
        r1 == onclose(r0, s, pageJustBecameVisibleRef, 0)
        forced == /\ isConnected /\ mounted
                  /\ forcedReconnectRuns(FALSE, enabled, pageJustBecameVisibleRef)
    IN IF forced
       THEN forcedReconnect(r1, FALSE, enabled, pageJustBecameVisibleRef).failed
       ELSE r1.failed

\* the connect() of the reconnect timeout calls onConnectionFailed
timerCallsFailed ==
    connect([Refs EXCEPT !.tref = "stale", !.failed = FALSE], TRUE).failed

RoomClosing ==
    /\ mounted /\ Receiving
    /\ \E s \in Sockets : sockState[s] = "open"
    /\ Commit(handleRoomClosing(Client), FALSE, [type |-> "ROOM_CLOSING"])
    /\ UNCHANGED <<hookVars, impl>>

\* a connection ends; its onclose handler runs and may call the page's
\* onConnectionFailed
ConnectionClosed(s) ==
    /\ wsOnclose(s)
    /\ IF mounted /\ closeCallsFailed(s)
       THEN /\ Commit(onConnectionFailed(Client), FALSE,
                      [type |-> "connectionFailed"])
            /\ UNCHANGED impl
       ELSE UNCHANGED pageVars

ReconnectFired ==
    /\ reconnectTimeout
    /\ IF mounted /\ timerCallsFailed
       THEN /\ Commit(onConnectionFailed(Client), FALSE,
                      [type |-> "connectionFailed"])
            /\ UNCHANGED impl
       ELSE UNCHANGED pageVars

LeakedFired ==
    /\ leakedTimeout
    /\ IF mounted /\ connect([Refs EXCEPT !.failed = FALSE], TRUE).failed
       THEN /\ Commit(onConnectionFailed(Client), FALSE,
                      [type |-> "connectionFailed"])
            /\ UNCHANGED impl
       ELSE UNCHANGED pageVars

\* the user presses the button of the error modal: modalAction runs, which is
\* handleErrorModalClose (close and router.push("/"), the page unmounts)
\* unless a queue notice has replaced it by a plain close
DismissErrorModal ==
    /\ mounted /\ mainRendered /\ showErrorModal
    /\ Commit([Client EXCEPT !.showErrorModal = FALSE], FALSE,
              [type |-> "dismissModal", action |-> modalAction])
    /\ UNCHANGED impl
    /\ IF modalAction = "home" THEN unmountCleanup ELSE UNCHANGED hookVars

ClosingSnapshots == {Snapshot(<<1>>, <<2>>, 0, FALSE, 0, 1, FALSE)}

ClosingNext ==
    \/ \E r \in ClosingSnapshots : MountRoom(r, TRUE)
    \/ \E s \in Sockets : OnOpen(s)
    \/ RoomClosing
    \/ mounted /\ Receiving
          /\ BringSongToTop(2, "Queue unchanged, blocked by throttle")
    \/ \E s \in Sockets : ConnectionClosed(s)
    \/ ReconnectFired
    \/ LeakedFired
    \/ PageHidden
    \/ PageVisible
    \/ VisibilityTimer
    \/ DismissErrorModal

\* The room page of part_005 with its connection, until the room is closed
InitClosing ==
    /\ HookInit
    /\ PageInit({"part5"})

SpecClosing == InitClosing /\ [][ClosingNext]_vars

(* ============================== claims ================================ *)

\* C1: whenever onclose fires for a socket that the hook's disconnect() did
\* not close, while the hook is mounted with enabled true and the incremented
\* reconnectAttempts is below maxReconnectAttempts, a reconnect is scheduled.
C1_ReconnectScheduled ==
    (lastClose.fired /\ ~lastClose.manual /\ lastClose.live
        /\ lastClose.attempts < maxReconnectAttempts)
    => lastClose.scheduled

\* C10: every ping received on an open socket is answered by exactly one pong
\* on that same socket and is not forwarded; every other message is forwarded
\* to onMessage exactly once, in arrival order.
C10_Keepalive ==
    /\ \A s \in Sockets : pongSent[s] = pingRecv[s]
    /\ delivered = arrived
    /\ \A i \in 1..Len(delivered) : delivered[i] # "ping"

\* position of e in the sequence q (0 if absent)
IndexOf(q, e) == IF e \in Range(q) THEN CHOOSE i \in 1..Len(q) : q[i] = e ELSE 0

\* C2: after a ROOM_STATE event is processed by page.tsx or part_005, the
\* client's room equals the snapshot in every field: members, queue,
\* current_song, playback_state, active_users (and autoplay in part_005).
C2_FullResync ==
    (lastEvent.type = "ROOM_STATE" /\ impl \in {"page", "part5"})
    => /\ room.members = lastEvent.room.members
       /\ room.queue = lastEvent.room.queue
       /\ room.current_song = lastEvent.room.current_song
       /\ room.playback_state = lastEvent.room.playback_state
       /\ room.active_users = lastEvent.room.active_users
       /\ impl = "part5" => room.autoplay = lastEvent.room.autoplay

C8_ThrottledBringToTop ==
    [][(lastEvent'.type = "bringSongToTop" /\ lastEvent'.sent) =>
        /\ room'.queue # room.queue => lastEvent'.answer = "Queue reordered"
        /\ lastEvent'.answer = "Queue unchanged, blocked by throttle"
           => room'.queue = room.queue /\ showErrorModal']_vars

\* C9: processing USER_JOINED, USER_LEFT or ROOM_STATS_UPDATE (page.tsx,
\* part_005) never changes room.members, and active_users changes only to
\* the value carried by ROOM_STATS_UPDATE.
C9_MembersIndependent ==
    [][(lastEvent'.type \in {"USER_JOINED", "USER_LEFT", "ROOM_STATS_UPDATE"}
            /\ impl \in {"page", "part5"}) =>
        /\ room'.members = room.members
        /\ room'.active_users =
              IF lastEvent'.type = "ROOM_STATS_UPDATE"
              THEN lastEvent'.active_users ELSE room.active_users]_vars

\* C3: the displayed position (currentTime, from which the time label and the
\* progress bar are derived) is never negative, in page.tsx and part_005,
\* whatever current_time the snapshots and events carry.
C3_DisplayedTimeNonNegative == currentTime >= 0

\* C4: part_005 never assigns a negative value to the audio element's
\* currentTime, whatever current_time the events and snapshots carry.
C4_AudioTimeNonNegative == impl = "part5" => audioAssigned >= 0

\* C5: processing SONG_CHANGED (page.tsx, part_005) sets current_song to the
\* event's song and current_time to 0, never changes is_playing, never starts
\* the local audio, and loads the new audio with auto-play off.
C5_SongChangeKeepsPlayState ==
    [][lastEvent'.type = "SONG_CHANGED" =>
        /\ room'.current_song = lastEvent'.song
        /\ room'.playback_state.current_time = 0
        /\ room'.playback_state.is_playing = room.playback_state.is_playing
        /\ audio.paused => audio'.paused
        /\ listeners' # listeners => ~listeners'.isPlaying]_vars

\* C6: when a playback, skip or autoplay-toggle request of part_005 is
\* answered with 429, room.playback_state, room.autoplay, the queue, the
\* audio element's paused state and audioError are as before the user action
\* and no error modal is shown.
C6_ThrottledCommandNoop ==
    [][(lastEvent'.type \in {"togglePlayback", "skipToNext", "autoplayToggle"}
            /\ lastEvent'.status = 429) =>
        /\ room'.playback_state = room.playback_state
        /\ room'.autoplay = room.autoplay
        /\ room'.queue = room.queue
        /\ audio'.paused = audio.paused
        /\ audioError' = audioError
        /\ showErrorModal' = showErrorModal]_vars

\* C11: SONG_ADDED appends the event's song at the end of the queue,
\* SONG_REMOVED removes exactly the entries with the event's song_id and keeps
\* the order of the rest, QUEUE_REORDERED replaces the queue by the event's;
\* none of them changes current_song, playback_state, members or
\* active_users, and with a null room nothing changes (page.tsx, part_005).
C11_QueueEventsOnlyQueue ==
    [][lastEvent'.type \in {"SONG_ADDED", "SONG_REMOVED", "QUEUE_REORDERED"} =>
        IF room = NoRoom THEN room' = NoRoom
        ELSE /\ room'.current_song = room.current_song
             /\ room'.playback_state = room.playback_state
             /\ room'.members = room.members
             /\ room'.active_users = room.active_users
             /\ lastEvent'.type = "SONG_ADDED" =>
                    /\ Len(room'.queue) = Len(room.queue) + 1
                    /\ room'.queue[Len(room'.queue)] = lastEvent'.song
                    /\ \A i \in 1..Len(room.queue) : room'.queue[i] = room.queue[i]
             /\ lastEvent'.type = "SONG_REMOVED" =>
                    /\ Range(room'.queue) = Range(room.queue) \ {lastEvent'.song_id}
                    /\ Len(room'.queue) = Cardinality(Range(room'.queue))
                    /\ \A a, b \in Range(room'.queue) :
                           IndexOf(room.queue, a) < IndexOf(room.queue, b)
                           => IndexOf(room'.queue, a) < IndexOf(room'.queue, b)
             /\ lastEvent'.type = "QUEUE_REORDERED" =>
                    room'.queue = lastEvent'.queue]_vars

\* a song was appended to a queue of two
C11_Witness ==
    /\ lastEvent.type = "SONG_ADDED"
    /\ Len(room.queue) = 3
    /\ room.queue[3] = lastEvent.song

\* C12: when the HEAD request of loadAudio is answered 202, songDownloading
\* becomes true and no audioError is set; answered 404, the loading timeout
\* is cancelled and the client is left in the error state (audioError
\* non-null, audioLoading false, songDownloading false); answered with
\* success, songDownloading is cleared.
C12_NotYetVersusNotFound ==
    [][lastEvent'.type = "head" =>
        /\ lastEvent'.status = 202 =>
              songDownloading' /\ audioError' \in {audioError, "null"}
        /\ lastEvent'.status = 404 =>
              /\ ~listeners'.timeout
              /\ audioError' # "null"
              /\ ~audioLoading'
              /\ ~songDownloading'
        /\ lastEvent'.status = 200 => ~songDownloading']_vars

\* C13: no WebSocket exists before the room snapshot has been read
\* successfully; when the read failed, no WebSocket is ever created and the
\* error modal is shown.
C13_SocketOnlyForExistingRoom ==
    /\ (room = NoRoom \/ isLoading) => \A s \in Sockets : sockState[s] = "unused"
    /\ (lastEvent.type = "checkRoomExists" /\ ~lastEvent.ok) =>
          /\ \A s \in Sockets : sockState[s] = "unused"
          /\ showErrorModal /\ mainRendered

\* C14: after PLAYBACK_STATE_CHANGED (part_005), PLAYBACK_STARTED or
\* PLAYBACK_PAUSED carrying current_time = t is processed, the client's
\* playback_state.current_time is t, for every t including 0, and is_playing
\* is the play state of the event.
C14_AnchorAdopted ==
    [][(\/ lastEvent'.type \in {"PLAYBACK_STARTED", "PLAYBACK_PAUSED"}
        \/ lastEvent'.type = "PLAYBACK_STATE_CHANGED" /\ impl = "part5") =>
        /\ room'.playback_state.current_time = lastEvent'.current_time
        /\ room'.playback_state.is_playing = lastEvent'.is_playing]_vars

\* C15: once every HEAD request has been answered the audio src is the
\* stream of the most recent loadAudio call, and the HEAD answer of a load
\* whose cleanup function has been called changes neither the audio src nor
\* songDownloading, audioError or audioLoading.
C15_LastLoadWins ==
    [][/\ (heads' = {} /\ listeners' # NoLoad) => audio'.src = listeners'.video
       /\ (/\ lastEvent'.type = "head"
           /\ (listeners = NoLoad \/ listeners.video # lastEvent'.video)) =>
            /\ audio'.src = audio.src
            /\ songDownloading' = songDownloading
            /\ audioError' = audioError
            /\ audioLoading' = audioLoading]_vars

\* C16: since the last reset (a successful open or a page-visibility reset)
\* the hook has constructed at most maxReconnectAttempts WebSockets,
\* reconnectAttempts never exceeds maxReconnectAttempts, and once the limit is
\* reached onConnectionFailed has been invoked and no reconnect timer is
\* pending.
C16_ReconnectBounded ==
    /\ createdSinceReset <= maxReconnectAttempts
    /\ reconnectAttemptsRef <= maxReconnectAttempts
    /\ reconnectAttemptsRef >= maxReconnectAttempts =>
          /\ connectionFailed
          /\ reconnectTimeoutRef # "pending"
          /\ leakedTimers = 0

\* the smaller of two delays
MinDelay(a, b) == IF a <= b THEN a ELSE b

\* C17 as stated: the first reconnect after a successful open waits exactly
\* reconnectInterval, each further consecutive reconnect waits at least 1.5
\* times the previous delay (in whole ms), no delay exceeds 30000 ms, and a
\* successful open resets the delay to reconnectInterval and
\* reconnectAttempts to 0.
C17_BackoffAsStated ==
    [][/\ (reconnectAttemptsRef' = reconnectAttemptsRef + 1
             /\ lastClose'.scheduled /\ isConnected)
          => lastClose'.delay = reconnectInterval
       /\ (reconnectAttemptsRef' = reconnectAttemptsRef + 1
             /\ lastClose'.scheduled /\ reconnectAttemptsRef >= 1)
          => lastClose'.delay >= (3 * lastClose.delay) \div 2
       /\ connectionRetryDelayRef' <= MaxRetryDelay
       /\ lastClose'.delay <= MaxRetryDelay
       /\ (isConnected' /\ ~isConnected)
          => connectionRetryDelayRef' = reconnectInterval
             /\ reconnectAttemptsRef' = 0]_vars

\* C17, amended: each further consecutive reconnect waits at least 1.5 times
\* the previous delay or 30000 ms, whichever is smaller; the rest as stated.
C17_Backoff ==
    [][/\ (reconnectAttemptsRef' = reconnectAttemptsRef + 1
             /\ lastClose'.scheduled /\ isConnected)
          => lastClose'.delay = reconnectInterval
       /\ (reconnectAttemptsRef' = reconnectAttemptsRef + 1
             /\ lastClose'.scheduled /\ reconnectAttemptsRef >= 1)
          => lastClose'.delay >=
                MinDelay((3 * lastClose.delay) \div 2, MaxRetryDelay)
       /\ connectionRetryDelayRef' <= MaxRetryDelay
       /\ lastClose'.delay <= MaxRetryDelay
       /\ (isConnected' /\ ~isConnected)
          => connectionRetryDelayRef' = reconnectInterval
             /\ reconnectAttemptsRef' = 0]_vars

\* a reconnect was scheduled with the capped delay
C17_Witness ==
    /\ lastClose.scheduled
    /\ lastClose.delay = MaxRetryDelay
    /\ reconnectAttemptsRef >= 2

\* C18: at every moment at most one WebSocket created by the hook is
\* CONNECTING or OPEN (its handlers are attached from its creation on).
C18_OneLiveConnection ==
    Cardinality({s \in Sockets : sockState[s] \in {"connecting", "open"}}) <= 1

\* C19: once disconnect() has run for the unmount, no reconnect timer is
\* pending and the hook constructs no WebSocket any more, whatever onclose
\* events, timers and visibility events follow.
C19_ManualCloseFinal ==
    [][~mounted' =>
        /\ reconnectTimeoutRef' # "pending"
        /\ leakedTimers' = 0
        /\ ~mounted =>
              \A s \in Sockets :
                 sockState[s] = "unused" => sockState'[s] = "unused"]_vars

\* the 500 ms timeout of handleVisibilityChange fires in this step
timerFires == visTimers # <<>> /\ visTimers' = Tail(visTimers)

\* C20: when the settle delay after the page became visible ends and the
\* hook is mounted, enabled and not connected, a fresh reconnection has been
\* made since the page became visible; a fresh reconnection sets
\* reconnectAttempts to 0 and the delay to reconnectInterval, leaves no
\* reconnect timer in the ref pending, clears the manual-close flag and calls
\* connect(); with the current socket open the timeout makes no new socket.
C20_FreshReconnectOnReturn ==
    [][/\ (timerFires /\ visTimers' = <<>> /\ mounted /\ enabled
             /\ ~isConnected /\ ~docHidden)
          => freshSinceVisible'
       /\ (freshSinceVisible' /\ ~freshSinceVisible) =>
            /\ reconnectAttemptsRef' = 0
            /\ connectionRetryDelayRef' = reconnectInterval
            /\ reconnectTimeoutRef' # "pending"
            /\ ~isManuallyClosedRef'
            /\ \/ \E s \in Sockets :
                     sockState[s] = "unused" /\ sockState'[s] = "connecting"
               \/ wsRef' # 0 /\ sockState'[wsRef'] = "open"
       /\ (timerFires /\ wsRef # 0 /\ sockState[wsRef] = "open") =>
            \A s \in Sockets :
               sockState[s] = "unused" => sockState'[s] = "unused"]_vars

\* the runs of checkAudioStatus whose interval for video v is scheduled
LiveIntervals(runs, v) == {i \in Runs : runs[i].video = v /\ runs[i].interval}

\* C21: for each video at most one status-polling interval is scheduled; a
\* video that is not in the checking set has no interval scheduled; and
\* checkAudioStatus(v) (here: on SONG_CHANGED) while v is in the checking set
\* starts nothing.
C21_OnePollPerTrack ==
    [][/\ \A v \in Songs :
            /\ Cardinality(LiveIntervals(statusRuns', v)) <= 1
            /\ audioStatusChecking'[v] = "no" => LiveIntervals(statusRuns', v) = {}
       /\ (/\ lastEvent'.type = "SONG_CHANGED"
           /\ lastEvent'.song # 0
           /\ audioStatusChecking[lastEvent'.song] # "no")
          => /\ statusRuns' = statusRuns
             /\ statusCheckIntervalsRef' = statusCheckIntervalsRef
             /\ audioStatusChecking' = audioStatusChecking]_vars

\* video v is being polled: it is in the checking set or has an interval
Polling(v) ==
    audioStatusChecking[v] # "no" \/ LiveIntervals(statusRuns, v) # {}

\* C22 (part_005): once the backend's status of a video is for ever ready,
\* or for ever a failure (error, unknown), its polling always ends again:
\* infinitely often no interval is scheduled, the video is out of the
\* checking set and songDownloading is false.
C22_PollingTerminates ==
    \A v \in PolledSongs :
        <>[](impl = "part5" /\ serverStatus[v] # "downloading")
            => []<>(~Polling(v) /\ ~songDownloading)

\* C23 (part_005): an answer or the timeout of a status poll of a video other
\* than the current song's leaves songDownloading, audioLoading and
\* audioError unchanged.
C23_FlagsOfCurrentSong ==
    [][(/\ impl = "part5"
        /\ lastEvent'.type = "status"
        /\ room # NoRoom
        /\ room.current_song \notin {0, lastEvent'.video})
       => /\ songDownloading' = songDownloading
          /\ audioLoading' = audioLoading
          /\ audioError' = audioError]_vars

\* C24: retryAudioPlayback fails at most MAX_RETRY_ATTEMPTS times in a row,
\* the self-scheduled retries included; after the last of these failures the
\* refresh modal is shown and no retry is scheduled; a successful retry
\* leaves the attempt counter at 0.
C24_RetryBounded ==
    /\ retryFailures <= MAX_RETRY_ATTEMPTS
    /\ (lastEvent.type = "retryFetched" /\ lastEvent.failed
           /\ retryFailures >= MAX_RETRY_ATTEMPTS)
        => showRefreshModal /\ audioRetry.stage = "idle"
    /\ (lastEvent.type = "retryFetched" /\ ~lastEvent.failed)
        => audioRetryAttempts = 0

\* the WebSocket events whose handlers can call play()
StartingEvents ==
    {"ROOM_STATE", "SONG_CHANGED", "PLAYBACK_STATE_CHANGED", "PLAYBACK_STARTED",
     "PLAYBACK_PROGRESS"}

C26_AudioFollowsBackend ==
    [][(impl = "part5" /\ lastEvent'.type = "togglePlayback")
       => /\ lastEvent'.status \in {429, 500} => audio'.paused = audio.paused
          /\ (/\ room # NoRoom /\ ~room.playback_state.is_playing
              /\ audio.paused /\ ~audio'.paused) => lastEvent'.status = 200
          /\ (~audio.paused /\ audio.src # 0 /\ audio'.paused)
                => lastEvent'.status = 200]_vars

\* a late joiner presses play: the room plays, the local element is paused,
\* and togglePlayback does not return at its first checks
LateJoinerPress ==
    /\ lastEvent'.type \in {"togglePlayback", "togglePlaybackPage"}
    /\ room # NoRoom /\ ~isLoading
    /\ room.current_song # 0 /\ ~songDownloading
    /\ audioError = "null"
    /\ room.playback_state.is_playing /\ audio.paused

\* C27: when a late joiner presses play no playback POST is sent, the position
\* of a loaded element is not written when the snapshot's position is
\* negative, and when the GET and play() succeed with a position that is not
\* negative the element plays from that position
C27_LateJoiner ==
    [][LateJoinerPress
       => /\ lastEvent'.request # "POST"
          /\ (lastEvent'.time < 0 /\ audio.src # 0)
                => audioAssigned' = audioAssigned
          /\ (/\ lastEvent'.request = "GET" /\ lastEvent'.answer = 200
              /\ lastEvent'.time >= 0 /\ ~audio'.paused)
                => audioAssigned' = lastEvent'.time]_vars

\* C28: in part_005 a PLAYBACK_PROGRESS event with a position above 0.5 that
\* arrives while the local audio plays writes the element's position only when
\* it differs from the event's by more than 2 s, and then the new position is
\* within 2 s of the event's; with a difference of 2 s or less the position
\* is left alone
C28_DriftTolerance ==
    [][(/\ impl = "part5" /\ lastEvent'.type = "PLAYBACK_PROGRESS"
        /\ lastEvent'.time >= 1 /\ ~isLoading /\ ~audio.paused)
       => IF Abs(audio.currentTime - lastEvent'.time) > 2
          THEN /\ audioAssigned' = lastEvent'.time + 1
               /\ Abs(audio'.currentTime - lastEvent'.time) <= 2
          ELSE /\ audio'.currentTime = audio.currentTime
               /\ audioAssigned' = audioAssigned]_vars

\* a playing audio was moved to one second after the event's position
C28_Witness ==
    /\ lastEvent.type = "PLAYBACK_PROGRESS" /\ lastEvent.time >= 1
    /\ ~audio.paused
    /\ audioAssigned = lastEvent.time + 1
    /\ audio.currentTime = lastEvent.time + 1

\* C29: a ROOM_CLOSING event shows the room-closed message and leaves the
\* room state alone; while the page is mounted the modal keeps showing that
\* message until the user dismisses it, whatever happens to the connection,
\* and dismissing it leaves the page for the home page
C29_RoomClosingLastWord ==
    [][/\ lastEvent'.type = "ROOM_CLOSING"
          => /\ room' = room
             /\ showErrorModal' /\ errorMessage' = "room closed"
       /\ (mounted /\ showErrorModal /\ errorMessage = "room closed")
          => \/ mounted' /\ showErrorModal' /\ errorMessage' = "room closed"
             \/ /\ lastEvent'.type = "dismissModal"
                /\ ~mounted' /\ ~showErrorModal']_vars

====
